---- MODULE Spec2Model ----
(***************************************************************************)
(* Pricing engine of the dealership library (src/core/calculator.py):      *)
(* CarPriceCalculator, calculate_depreciation and calculate_loan_payment,  *)
(* its statistics and trend analysis (src/utils/statistics.py) and the     *)
(* transactions of a Dealership (src/models/dealership.py), introduced     *)
(* further down.                                                           *)
(*                                                                         *)
(* The code computes in Python floats (IEEE 754 binary64).  A float is     *)
(* held here as a record [neg, m, e] standing for (-1)^neg * m * 2^e with  *)
(* m a natural number of at most 53 significant bits, and every float      *)
(* operation is the exact operation followed by round-to-nearest, ties to  *)
(* even.  Naturals wider than 31 bits are little-endian sequences of       *)
(* limbs.  Exponent overflow and subnormals are outside the value ranges   *)
(* of the model and are not represented.  x ** n is the C library's pow(), *)
(* accurate to within one unit in the last place: where the power is not a *)
(* double, either neighbouring double may be returned.                     *)
(*                                                                         *)
(* Values returned by round(x, n) are held as the integer N with           *)
(* round(x, n) = float(N / 10^n): hundredths for the factors and the money *)
(* amounts, tenths for the percentages.                                    *)
(***************************************************************************)
EXTENDS Integers, Sequences, FiniteSets, TLC


VARIABLES
    now_year,   \* datetime.now().year
    ctor,       \* the constructor call made: its arguments and its outcome
    calc,       \* the object constructed, NoCalc while there is none
    result,     \* what calculate_market_price returned the first time
    ret,        \* the most recent call and what it returned
    args        \* the arguments the caller holds: of a module-level function
                \* call, or the list a statistics object is made from

vars == <<now_year, ctor, calc, result, ret, args>>

----------------------------------------------------------------------------
(* Natural numbers as limb sequences, binary64 arithmetic *)

\* Call(c) is the value of the call c = <<name, arguments ...>>: of the
\* arithmetic below, and of the methods and functions of the program.
RECURSIVE Call(_), Method(_)

DRound(neg, m, e, sticky) == Call(<<"DRound", neg, m, e, sticky>>)
BShl(a, s) == Call(<<"BShl", a, s>>)
BShr(a, s) == Call(<<"BShr", a, s>>)
BMul(a, b) == Call(<<"BMul", a, b>>)
BAdd(a, b) == Call(<<"BAdd", a, b>>)
BSub(a, b) == Call(<<"BSub", a, b>>)
RoundShift(m, s, sticky) == Call(<<"RoundShift", m, s, sticky>>)
DMul(x, y) == Call(<<"DMul", x, y>>)
DAdd(x, y) == Call(<<"DAdd", x, y>>)
DDiv(x, y) == Call(<<"DDiv", x, y>>)
DFromInt(n) == Call(<<"DFromInt", n>>)
PyRound(x) == Call(<<"PyRound", x>>)
Dec(n, d) == Call(<<"Dec", n, d>>)
BDivModSmall(a, k) == Call(<<"BDivModSmall", a, k>>)
BLongDiv(a, b, j) == Call(<<"BLongDiv", a, b, j>>)
BLongDivStep(up, limb, b) == Call(<<"BLongDivStep", up, limb, b>>)
BDivMod(a, b) == Call(<<"BDivMod", a, b>>)
BPow(m, n) == Call(<<"BPow", m, n>>)

\* Limbs of LimbBits bits: a sum of four limb products stays below 2^31.
LimbBits == 14

\* Significand width of a binary64 float.
MantissaBits == 53

PowersOfTwo ==
    <<1, 2, 4, 8, 16, 32, 64, 128, 256, 512, 1024, 2048, 4096, 8192, 16384,
      32768, 65536, 131072, 262144, 524288, 1048576, 2097152, 4194304,
      8388608, 16777216, 33554432, 67108864, 134217728, 268435456,
      536870912, 1073741824>>

Pow2(n) == PowersOfTwo[n + 1]

Base == Pow2(LimbBits)

\* Number of bits of v, 0 <= v < 2^31.
BitLenSmall(v) ==
    CHOOSE n \in 0..31 : (n = 0 \/ v >= Pow2(n - 1)) /\ (n = 31 \/ v < Pow2(n))

\* A natural number is the sequence of its limbs, least significant first,
\* with no zero limb at the top.
Dig(a, i) == IF i >= 1 /\ i <= Len(a) THEN a[i] ELSE 0

Strip(a) ==
    SubSeq(a, 1, CHOOSE i \in 0..Len(a) :
                     (i = 0 \/ a[i] # 0) /\ \A j \in (i + 1)..Len(a) : a[j] = 0)

BFromInt(n) == Strip(<<n % Base, (n \div Base) % Base, n \div (Base * Base)>>)

BToInt(a) == Dig(a, 1) + Base * (Dig(a, 2) + Base * Dig(a, 3))

BCmp(a, b) ==
    IF \A i \in 1..Len(a) : a[i] = Dig(b, i) THEN (IF Len(a) = Len(b) THEN 0 ELSE -1)
    ELSE IF Len(a) # Len(b) THEN (IF Len(a) < Len(b) THEN -1 ELSE 1)
    ELSE IF \E i \in 1..Len(a) : a[i] > b[i] /\ \A j \in (i + 1)..Len(a) : a[j] = b[j]
         THEN 1 ELSE -1

\* Digits below 2 * Base - 1 brought back below Base: the carry into limb i
\* is 1 when a lower digit overflows and every digit between passes it on.
Carried(d) ==
    Strip([i \in 1..(Len(d) + 1) |->
             (Dig(d, i) +
              (IF \E j \in 1..(i - 1) :
                      d[j] >= Base /\ \A k \in (j + 1)..(i - 1) : d[k] = Base - 1
               THEN 1 ELSE 0)) % Base])

BBitLen(a) ==
    IF a = <<>> THEN 0 ELSE LimbBits * (Len(a) - 1) + BitLenSmall(a[Len(a)])

\* bit i of a, counting from 0
BBit(a, i) == (Dig(a, i \div LimbBits + 1) \div Pow2(i % LimbBits)) % 2

\* whether a has a set bit among its s lowest
BLowBits(a, s) ==
    \/ \E j \in 1..(s \div LimbBits) : Dig(a, j) # 0
    \/ Dig(a, s \div LimbBits + 1) % Pow2(s % LimbBits) # 0

\* Base^t mod k for t = 0..7, k < 2^16
BasePowers(k) ==
    LET p1 == Base % k
        p2 == (p1 * Base) % k
        p3 == (p2 * Base) % k
        p4 == (p3 * Base) % k
        p5 == (p4 * Base) % k
        p6 == (p5 * Base) % k
        p7 == (p6 * Base) % k
    IN  <<1 % k, p1, p2, p3, p4, p5, p6, p7>>

BIsOdd(a) == a # <<>> /\ a[1] % 2 = 1

\* value = (IF neg THEN -1 ELSE 1) * m * 2^e
DVal(neg, m, e) == [neg |-> neg, m |-> m, e |-> e]

DZero == DVal(FALSE, <<>>, 0)

Abs(n) == IF n < 0 THEN -n ELSE n

DNeg(x) == DVal(~x.neg, x.m, x.e)

DSub(x, y) == DAdd(x, DNeg(y))

\* the number of zero bits at the low end of a, a # 0
TrailingZeros(a) ==
    LET j == CHOOSE i \in 1..Len(a) : a[i] # 0 /\ \A h \in 1..(i - 1) : a[h] = 0
    IN  LimbBits * (j - 1)
        + (CHOOSE t \in 0..(LimbBits - 1) : a[j] % Pow2(t + 1) # 0 /\ a[j] % Pow2(t) = 0)

\* -1, 0, 1 as x < y, x = y, x > y
DCmp(x, y) ==
    LET d == DAdd(x, DNeg(y))
    IN  IF d.m = <<>> THEN 0 ELSE IF d.neg THEN -1 ELSE 1

\* round(x, nd): the integer N with round(x, nd) == float(N / 10^nd)
PyRoundDigits(x, scale) == PyRound(DVal(x.neg, BMul(x.m, <<scale>>), x.e))

\* x ** n for an int n >= 0, which CPython hands to the C library's pow():
\* the power itself where a double holds it, and otherwise either of the two
\* doubles next to it, the library's result being within one unit in the last
\* place but not always the nearer of the two.
DPow(x, n) ==
    LET p   == BPow(x.m, n)
        s   == BBitLen(p) - MantissaBits
        neg == x.neg /\ n % 2 = 1
    IN  IF s <= 0 THEN {DVal(neg, p, x.e * n)}
        ELSE IF ~BLowBits(p, s) THEN {DVal(neg, BShr(p, s), x.e * n + s)}
        ELSE {DVal(neg, BShr(p, s), x.e * n + s),
              DVal(neg, BAdd(BShr(p, s), <<1>>), x.e * n + s)}

Call(call) ==
    CASE
       call[1] = "DRound" ->
        LET neg == call[2] m == call[3] e == call[4] sticky == call[5] IN
            LET bl == BBitLen(m)
            IN  IF bl <= MantissaBits THEN DVal(neg, m, e)
                ELSE DVal(neg, RoundShift(m, bl - MantissaBits, sticky), e + (bl - MantissaBits))
    [] call[1] = "BShl" ->
        LET a == call[2] s == call[3] IN
            LET q == s \div LimbBits
                r == s % LimbBits
            IN  Strip([i \in 1..(Len(a) + q + 1) |->
                         (Dig(a, i - q) % Pow2(LimbBits - r)) * Pow2(r)
                         + (Dig(a, i - q - 1) \div Pow2(LimbBits - r))])
    [] call[1] = "BShr" ->
        LET a == call[2] s == call[3] IN
            LET q == s \div LimbBits
                r == s % LimbBits
            IN  Strip([i \in 1..Len(a) |->
                         (Dig(a, i + q) \div Pow2(r))
                         + (Dig(a, i + q + 1) % Pow2(r)) * Pow2(LimbBits - r)])
    \* a * b for b of at most four limbs
    [] call[1] = "BMul" ->
        LET a == call[2] b == call[3] IN
            LET n    == Len(a) + Len(b)
                col  == SubSeq([k \in 1..n |->
                                  Dig(a, k) * Dig(b, 1) + Dig(a, k - 1) * Dig(b, 2)
                                + Dig(a, k - 2) * Dig(b, 3) + Dig(a, k - 3) * Dig(b, 4)], 1, n)
                mid  == SubSeq([k \in 1..(n + 1) |->
                                  (Dig(col, k) % Base) + (Dig(col, k - 1) \div Base)], 1, n + 1)
                low  == SubSeq([k \in 1..(n + 2) |->
                                  (Dig(mid, k) % Base) + (Dig(mid, k - 1) \div Base)], 1, n + 2)
            IN  IF a = <<>> \/ b = <<>> THEN <<>> ELSE Carried(low)
    [] call[1] = "BAdd" ->
        LET a == call[2] b == call[3] IN
            LET n == IF Len(a) > Len(b) THEN Len(a) ELSE Len(b)
                d == SubSeq([i \in 1..n |-> Dig(a, i) + Dig(b, i)], 1, n)
            IN  Carried(d)
    \* a - b for a >= b
    [] call[1] = "BSub" ->
        LET a == call[2] b == call[3] IN
            LET d == SubSeq([i \in 1..Len(a) |-> a[i] - Dig(b, i)], 1, Len(a))
            IN  Strip([i \in 1..Len(a) |->
                         (d[i] -
                          (IF \E j \in 1..(i - 1) :
                                  d[j] < 0 /\ \A k \in (j + 1)..(i - 1) : d[k] = 0
                           THEN 1 ELSE 0)) % Base])
    \* m \div 2^s rounded to nearest, ties to even; sticky tells that bits
    \* below m were already dropped
    [] call[1] = "RoundShift" ->
        LET m == call[2] s == call[3] sticky == call[4] IN
            LET q      == BShr(m, s)
                half   == BBit(m, s - 1) = 1
                below  == sticky \/ BLowBits(m, s - 1)
            IN  IF half /\ (below \/ BIsOdd(q)) THEN BAdd(q, <<1>>) ELSE q
    [] call[1] = "DMul" ->
        LET x == call[2] y == call[3] IN
            IF x.m = <<>> \/ y.m = <<>> THEN DZero
            ELSE DRound(x.neg # y.neg, BMul(x.m, y.m), x.e + y.e, FALSE)
    [] call[1] = "DAdd" ->
        LET x == call[2] y == call[3] IN
            IF x.m = <<>> THEN y
            ELSE IF y.m = <<>> THEN x
            ELSE
            LET e  == IF x.e < y.e THEN x.e ELSE y.e
                xm == BShl(x.m, x.e - e)
                ym == BShl(y.m, y.e - e)
                c  == BCmp(xm, ym)
            IN  IF x.neg = y.neg THEN DRound(x.neg, BAdd(xm, ym), e, FALSE)
                ELSE IF c = 0 THEN DZero
                ELSE IF c > 0 THEN DRound(x.neg, BSub(xm, ym), e, FALSE)
                ELSE DRound(y.neg, BSub(ym, xm), e, FALSE)
    \* x / y: the quotient to MantissaBits + 2 bits or more, with the remainder
    \* as sticky bit.  A divisor that is below 2^16 once its trailing zeros are
    \* dropped is divided by limb-wise.
    [] call[1] = "DDiv" ->
        LET x == call[2] y == call[3] IN
            IF x.m = <<>> THEN DZero
            ELSE
            LET tz  == TrailingZeros(y.m)
                ym  == BShr(y.m, tz)
                gap == (MantissaBits + 2) + BBitLen(ym) - BBitLen(x.m)
                k   == IF gap > 0 THEN gap ELSE 0
                xm  == BShl(x.m, k)
            IN  IF BBitLen(ym) <= 16
                THEN LET d == BDivModSmall(xm, BToInt(ym))
                     IN  DRound(x.neg # y.neg, d.q, x.e - y.e - tz - k, d.r # 0)
                ELSE LET d == BDivMod(xm, ym)
                     IN  DRound(x.neg # y.neg, d.q, x.e - y.e - tz - k, d.inexact)
    [] call[1] = "DFromInt" ->
        LET n == call[2] IN
            DVal(n < 0, BFromInt(Abs(n)), 0)
    \* the float written as the decimal n / d
    [] call[1] = "Dec" -> DDiv(DFromInt(call[2]), DFromInt(call[3]))
    \* round(x): nearest integer, ties to even
    [] call[1] = "PyRound" ->
        LET x == call[2] IN
            LET mag == IF x.m = <<>> THEN 0
                       ELSE IF x.e >= 0 THEN BToInt(BShl(x.m, x.e))
                       ELSE BToInt(RoundShift(x.m, -x.e, FALSE))
            IN  IF x.neg THEN -mag ELSE mag
    \* quotient and remainder of a by k, for a of at most eight limbs, 0 < k < 2^16
    [] call[1] = "BDivModSmall" ->
        LET a == call[2] k == call[3] IN
            LET pw  == BasePowers(k)
                rem == SubSeq([i \in 1..(Len(a) + 1) |->
                          ( ((Dig(a, i) * pw[1]) % k)     + ((Dig(a, i + 1) * pw[2]) % k)
                          + ((Dig(a, i + 2) * pw[3]) % k) + ((Dig(a, i + 3) * pw[4]) % k)
                          + ((Dig(a, i + 4) * pw[5]) % k) + ((Dig(a, i + 5) * pw[6]) % k)
                          + ((Dig(a, i + 6) * pw[7]) % k) + ((Dig(a, i + 7) * pw[8]) % k) ) % k],
                          1, Len(a) + 1)
            IN  [q |-> Strip([i \in 1..Len(a) |-> (rem[i + 1] * Base + a[i]) \div k]),
                 r |-> rem[1]]
    \* Quotient digits and remainder of the limbs j.. of a by b.
    [] call[1] = "BLongDiv" ->
        LET a == call[2] b == call[3] j == call[4] IN
            IF j > Len(a) THEN [q |-> <<>>, r |-> <<>>]
            ELSE BLongDivStep(BLongDiv(a, b, j + 1), a[j], b)
    \* One step of long division by b, whose top limb is at least Base / 2: the
    \* next limb is brought down to the remainder of the limbs above it and the
    \* quotient digit, at most 2 below its estimate from the top limbs, is found.
    [] call[1] = "BLongDivStep" ->
        LET up == call[2] limb == call[3] b == call[4] IN
            LET cur  == Strip(<<limb>> \o up.r)
                n    == Len(b)
                est  == (Dig(cur, n + 1) * Base + Dig(cur, n)) \div b[n]
                qhat == IF est > Base - 1 THEN Base - 1 ELSE est
                q    == CHOOSE c \in {qhat - 2, qhat - 1, qhat} :
                            /\ c >= 0
                            /\ BCmp(BMul(b, <<c>>), cur) <= 0
                            /\ BCmp(BMul(b, <<c + 1>>), cur) > 0
            IN  [q |-> <<q>> \o up.q, r |-> BSub(cur, BMul(b, <<q>>))]
    \* quotient of a by b # 0, and whether the division leaves a remainder
    [] call[1] = "BDivMod" ->
        LET a == call[2] b == call[3] IN
            LET s == LimbBits - BitLenSmall(b[Len(b)])
                d == BLongDiv(BShl(a, s), BShl(b, s), 1)
            IN  [q |-> Strip(d.q), inexact |-> d.r # <<>>]
    \* m^n, exactly
    [] call[1] = "BPow" ->
        LET m == call[2] n == call[3] IN
            IF n = 0 THEN <<1>> ELSE BMul(BPow(m, n - 1), m)
    [] OTHER -> Method(call)


----------------------------------------------------------------------------
(* CarPriceCalculator *)

\* datetime.now().year when the program starts, and how far the clock moves
\* while it runs.
StartYear == 2024
MaxTicks == 1

\* The oldest year __init__ accepts.
MinYear == 1900

\* list(CONDITION_FACTORS.keys()), and the factors in hundredths.
Conditions == <<"excellent", "good", "average", "poor", "damaged">>
CONDITION_FACTORS ==
    [c \in {Conditions[i] : i \in 1..Len(Conditions)} |->
        CASE c = "excellent" -> 120
          [] c = "good"      -> 100
          [] c = "average"   -> 80
          [] c = "poor"      -> 60
          [] c = "damaged"   -> 40]

NoCalc == [exists |-> FALSE]
NoCall == [op |-> "none"]

\* The clock moves on between any two calls.
Tick ==
    /\ now_year < StartYear + MaxTicks
    /\ now_year' = now_year + 1
    /\ UNCHANGED <<ctor, calc, result, ret, args>>

\* __init__ without the upper limit on the year.
InitError_any_future_year(base_price, year, mileage, condition, current_year) ==
    IF base_price <= 0 THEN "base_price"
    ELSE IF year < MinYear THEN "year"
    ELSE IF mileage < 0 THEN "mileage"
    ELSE IF condition \notin DOMAIN CONDITION_FACTORS THEN "condition"
    ELSE "none"

\* The field whose check raises ValueError in __init__, "none" when all pass.
InitError(base_price, year, mileage, condition, current_year) ==
    IF base_price <= 0 THEN "base_price"
    ELSE IF year < MinYear \/ year > current_year + 1 THEN "year"
    ELSE IF mileage < 0 THEN "mileage"
    ELSE IF condition \notin DOMAIN CONDITION_FACTORS THEN "condition"
    ELSE "none"

\* The fields __init__ stores.
NewCalc(base_price, year, mileage, condition, current_year) ==
    [exists |-> TRUE, base_price |-> base_price, year |-> year,
     mileage |-> mileage, condition |-> condition, current_year |-> current_year]

\* CarPriceCalculator(base_price, year, mileage, condition)
Construct(base_price, year, mileage, condition) ==
    LET raised == InitError(base_price, year, mileage, condition, now_year)
    IN  /\ ctor = NoCall
        /\ ctor' = [op |-> "__init__", base_price |-> base_price, year |-> year,
                    mileage |-> mileage, condition |-> condition,
                    at_year |-> now_year, raised |-> raised]
        /\ calc' = IF raised = "none"
                   THEN NewCalc(base_price, year, mileage, condition, now_year)
                   ELSE NoCalc
        /\ UNCHANGED <<now_year, result, ret, args>>

\* The float literals of the class.
D_0_03 == Dec(3, 100)
D_0_5  == Dec(1, 2)
D_0_9  == Dec(9, 10)
D_1_1  == Dec(11, 10)
D_0_7  == Dec(7, 10)
D_0_85 == Dec(85, 100)
D_1    == DFromInt(1)
D_100  == DFromInt(100)
D_1000 == DFromInt(1000)

\* calculate_age_factor reading the clock instead of self.current_year.
calculate_age_factor_by_clock(self) ==
    LET age    == now_year - self.year
        linear == DSub(D_1, DMul(DFromInt(age), D_0_03))
        factor == IF DCmp(linear, D_0_5) > 0 THEN linear ELSE D_0_5
    IN  PyRoundDigits(factor, 100)

\* calculate_age_factor without the max(0.5, ...).
calculate_age_factor_unfloored(self) ==
    LET age    == self.current_year - self.year
        linear == DSub(D_1, DMul(DFromInt(age), D_0_03))
    IN  PyRoundDigits(linear, 100)

\* calculate_age_factor, in hundredths
calculate_age_factor(self) ==
    LET age    == self.current_year - self.year
        linear == DSub(D_1, DMul(DFromInt(age), D_0_03))
        factor == IF DCmp(linear, D_0_5) > 0 THEN linear ELSE D_0_5
    IN  PyRoundDigits(factor, 100)

\* calculate_mileage_factor with the limits compared by <=.
calculate_mileage_factor_inclusive(self) ==
    IF self.mileage <= 50000 THEN 110
    ELSE IF self.mileage <= 100000 THEN 100
    ELSE IF self.mileage <= 150000 THEN 90
    ELSE IF self.mileage <= 200000 THEN 80
    ELSE 60

\* calculate_mileage_factor, in hundredths
calculate_mileage_factor(self) ==
    IF self.mileage < 50000 THEN 110
    ELSE IF self.mileage < 100000 THEN 100
    ELSE IF self.mileage < 150000 THEN 90
    ELSE IF self.mileage < 200000 THEN 80
    ELSE 60

\* calculate_condition_factor, in hundredths
calculate_condition_factor(self) ==
    IF self.condition \in DOMAIN CONDITION_FACTORS
    THEN CONDITION_FACTORS[self.condition]
    ELSE 100

\* The float a factor held in hundredths stands for.
Factor(h) == Dec(h, 100)

\* Rounding to the nearest 500.
RoundTo1000_to_500(x) == PyRound(DDiv(x, DFromInt(500))) * 500

\* round(x / 1000) * 1000
RoundTo1000(x) == PyRound(DDiv(x, D_1000)) * 1000

\* The market price with the condition factor left out of the product.
market_price_without_condition(self, age_factor, mileage_factor, condition_factor) ==
    RoundTo1000(DMul(DMul(DFromInt(self.base_price), Factor(age_factor)),
                     Factor(mileage_factor)))

\* market_price of calculate_market_price
market_price_of(self, age_factor, mileage_factor, condition_factor) ==
    RoundTo1000(DMul(DMul(DMul(DFromInt(self.base_price), Factor(age_factor)),
                          Factor(mileage_factor)),
                     Factor(condition_factor)))

\* min_price taken 10% above the market price.
min_price_above(market_price) == RoundTo1000(DMul(DFromInt(market_price), D_1_1))

\* min_price and max_price of calculate_market_price
min_price_of(market_price) == RoundTo1000(DMul(DFromInt(market_price), D_0_9))
max_price_of(market_price) == RoundTo1000(DMul(DFromInt(market_price), D_1_1))

\* depreciation that is not reset when the market price exceeds the base price.
depreciation_not_reset(self, market_price) ==
    PyRoundDigits(
        DMul(DSub(D_1, DDiv(DFromInt(market_price), DFromInt(self.base_price))),
             D_100), 10)

\* depreciation of calculate_market_price, in tenths of a percent
depreciation_of(self, market_price) ==
    IF market_price > self.base_price THEN 0
    ELSE PyRoundDigits(
             DMul(DSub(D_1, DDiv(DFromInt(market_price), DFromInt(self.base_price))),
                  D_100), 10)

\* calculate_market_price
calculate_market_price(self) ==
    LET age_factor       == calculate_age_factor(self)
        mileage_factor   == calculate_mileage_factor(self)
        condition_factor == calculate_condition_factor(self)
        market_price     == market_price_of(self, age_factor, mileage_factor,
                                            condition_factor)
    IN  [factors      |-> [age |-> age_factor, mileage |-> mileage_factor,
                           condition |-> condition_factor],
         base_price   |-> self.base_price,
         market_price |-> market_price,
         min_price    |-> min_price_of(market_price),
         max_price    |-> max_price_of(market_price),
         depreciation |-> depreciation_of(self, market_price),
         condition    |-> self.condition]

\* The tests of get_recommendations with the two lower bands taken in the
\* other order.
recommended_action_discount_first(price, base_price) ==
    IF DCmp(DFromInt(price), DMul(DFromInt(base_price), D_1_1)) > 0 THEN "sell_urgently"
    ELSE IF price > base_price THEN "sell"
    ELSE IF DCmp(DFromInt(price), DMul(DFromInt(base_price), D_0_85)) < 0
         THEN "sell_with_discount"
    ELSE IF DCmp(DFromInt(price), DMul(DFromInt(base_price), D_0_7)) < 0
         THEN "urgent_sale"
    ELSE "hold"

\* The branch get_recommendations takes, named after its 'action' text.
recommended_action(price, base_price) ==
    IF DCmp(DFromInt(price), DMul(DFromInt(base_price), D_1_1)) > 0 THEN "sell_urgently"
    ELSE IF price > base_price THEN "sell"
    ELSE IF DCmp(DFromInt(price), DMul(DFromInt(base_price), D_0_7)) < 0
         THEN "urgent_sale"
    ELSE IF DCmp(DFromInt(price), DMul(DFromInt(base_price), D_0_85)) < 0
         THEN "sell_with_discount"
    ELSE "hold"

\* get_recommendations: the branch taken and the price its advice quotes
get_recommendations(self) ==
    LET price == Call(<<"calculate_market_price", self>>).market_price
    IN  [action |-> recommended_action(price, self.base_price), price |-> price]

\* compare_with_average: difference in currency units, percent_diff in tenths
compare_with_average(self, average_price) ==
    LET market_price == Call(<<"calculate_market_price", self>>).market_price
        difference   == market_price - average_price
        percent_diff == IF average_price # 0
                        THEN DMul(DDiv(DFromInt(difference), DFromInt(average_price)),
                                  D_100)
                        ELSE DFromInt(0)
        verdict      == IF DCmp(percent_diff, DFromInt(10)) > 0 THEN "above_market"
                        ELSE IF DCmp(percent_diff, DFromInt(-10)) < 0 THEN "below_market"
                        ELSE "in_market"
    IN  [market_price   |-> market_price,
         average_price  |-> average_price,
         difference     |-> difference,
         percent_diff   |-> PyRoundDigits(percent_diff, 10),
         verdict        |-> verdict,
         recommendation |-> Call(<<"get_recommendations", self>>)]

\* conditions[:steps]
SliceTo(s, steps) ==
    SubSeq(s, 1, IF steps >= Len(s) THEN Len(s)
                 ELSE IF steps >= 0 THEN steps
                 ELSE IF Len(s) + steps > 0 THEN Len(s) + steps
                 ELSE 0)

\* calculate_price_range: each temporary calculator reads the clock anew
calculate_price_range(self, steps, clock) ==
    LET conditions == SliceTo(Conditions, steps)
        raised     == IF conditions = <<>> THEN "none"
                      ELSE InitError(self.base_price, self.year, self.mileage,
                                     conditions[1], clock)
    IN  IF raised # "none" THEN [raised |-> raised]
        ELSE [raised |-> "none",
              value  |-> [i \in 1..Len(conditions) |->
                            [condition |-> conditions[i],
                             price |-> Call(<<"calculate_market_price",
                                 NewCalc(self.base_price, self.year, self.mileage,
                                         conditions[i], clock)>>).market_price]]]

CalculateMarketPrice ==
    /\ calc.exists
    /\ ret' = [op |-> "calculate_market_price", value |-> Call(<<"calculate_market_price", calc>>)]
    /\ result' = IF result = NoCall THEN ret' ELSE result
    /\ UNCHANGED <<now_year, ctor, calc, args>>

GetRecommendations ==
    /\ calc.exists
    /\ ret' = [op |-> "get_recommendations", value |-> Call(<<"get_recommendations", calc>>)]
    /\ UNCHANGED <<now_year, ctor, calc, result, args>>

CompareWithAverage(average_price) ==
    /\ calc.exists
    /\ ret' = [op |-> "compare_with_average",
               value |-> Call(<<"compare_with_average", calc, average_price>>)]
    /\ UNCHANGED <<now_year, ctor, calc, result, args>>

CalculatePriceRange(steps) ==
    /\ calc.exists
    /\ ret' = [op |-> "calculate_price_range", steps |-> steps,
               value |-> Call(<<"calculate_price_range", calc, steps, now_year>>)]
    /\ UNCHANGED <<now_year, ctor, calc, result, args>>

CalculateAgeFactor ==
    /\ calc.exists
    /\ ret' = [op |-> "calculate_age_factor", value |-> Call(<<"calculate_age_factor", calc>>)]
    /\ UNCHANGED <<now_year, ctor, calc, result, args>>

CalculateMileageFactor ==
    /\ calc.exists
    /\ ret' = [op |-> "calculate_mileage_factor",
               value |-> Call(<<"calculate_mileage_factor", calc>>)]
    /\ UNCHANGED <<now_year, ctor, calc, result, args>>

CalculateConditionFactor ==
    /\ calc.exists
    /\ ret' = [op |-> "calculate_condition_factor",
               value |-> Call(<<"calculate_condition_factor", calc>>)]
    /\ UNCHANGED <<now_year, ctor, calc, result, args>>

Init ==
    /\ now_year = StartYear
    /\ ctor = NoCall
    /\ calc = NoCalc
    /\ result = NoCall
    /\ ret = NoCall
    /\ args = NoCall

ConditionArgs == DOMAIN CONDITION_FACTORS \cup {"unknown"}

\* One calculator and any sequence of calls of its four reporting methods.
\* The arguments offered to the constructor lie on both sides of each limit.
BasePrices == {0, 45000}
Years == {MinYear - 1, StartYear - 4, StartYear, StartYear + 2,
          StartYear + MaxTicks + 2}
Mileages == {-1, 50000}
AveragePrices == {0, 40000}
Steps == {-4, 0, 2, 6}

Next ==
    \/ Tick
    \/ \E p \in BasePrices, y \in Years, m \in Mileages, c \in ConditionArgs :
           Construct(p, y, m, c)
    \/ CalculateMarketPrice
    \/ GetRecommendations
    \/ \E a \in AveragePrices : CompareWithAverage(a)
    \/ \E s \in Steps : CalculatePriceRange(s)

Spec == Init /\ [][Next]_vars

\* calculate_market_price over a wider range of cars, among them base prices
\* whose product with the factors ends in 500.
PriceBasePrices == {-2500, 0, 400, 2500, 5000, 43750, 45000, 55000, 1500000}
PriceYears == {MinYear - 1, MinYear, StartYear - 10, StartYear - 4, StartYear}
                  \cup (StartYear + 1 .. StartYear + MaxTicks + 2)
PriceMileages == {-1, 45000, 50000, 120000}

PriceNext ==
    \/ Tick
    \/ \E p \in PriceBasePrices, y \in PriceYears, m \in PriceMileages,
          c \in ConditionArgs : Construct(p, y, m, c)
    \/ CalculateMarketPrice

PriceSpec == Init /\ [][PriceNext]_vars

\* The three factor methods over every year from before MinYear to beyond the
\* clock, and over the mileages around each limit.
FactorYears == (MinYear - 1) .. (StartYear + MaxTicks + 2)
FactorMileages == {-1, 0, 49999, 50000, 50001, 99999, 100000, 100001, 149999,
                   150000, 150001, 199999, 200000, 200001, 1000000}

FactorNext ==
    \/ Tick
    \/ \E y \in FactorYears : Construct(45000, y, 45000, "good")
    \/ \E m \in FactorMileages, c \in ConditionArgs :
           Construct(45000, StartYear - 4, m, c)
    \/ CalculateAgeFactor
    \/ CalculateMileageFactor
    \/ CalculateConditionFactor

FactorSpec == Init /\ [][FactorNext]_vars

----------------------------------------------------------------------------
(* calculate_depreciation *)

D_0_1 == Dec(1, 10)

\* The check of calculate_depreciation that raises ValueError, "none" when
\* all pass.
DepreciationError(purchase_price, purchase_year, current_year, annual_rate) ==
    IF purchase_year > current_year THEN "purchase_year"
    ELSE IF purchase_price <= 0 THEN "purchase_price"
    ELSE IF DCmp(annual_rate, DFromInt(0)) <= 0 \/ DCmp(annual_rate, D_1) > 0
         THEN "annual_rate"
    ELSE "none"

\* The floor at a tenth of the purchase price, leaving total_depreciation as
\* it was.
depreciation_floor_keeps_total(purchase_price, current_value, total_depreciation) ==
    LET min_value == DMul(DFromInt(purchase_price), D_0_1)
    IN  IF DCmp(current_value, min_value) < 0
        THEN [current_value |-> min_value, total_depreciation |-> total_depreciation]
        ELSE [current_value |-> current_value,
              total_depreciation |-> total_depreciation]

\* The floor at a tenth of the purchase price.
depreciation_floor(purchase_price, current_value, total_depreciation) ==
    LET min_value == DMul(DFromInt(purchase_price), D_0_1)
    IN  IF DCmp(current_value, min_value) < 0
        THEN [current_value |-> min_value,
              total_depreciation |-> DSub(DFromInt(purchase_price), min_value)]
        ELSE [current_value |-> current_value,
              total_depreciation |-> total_depreciation]

\* calculate_depreciation(purchase_price, purchase_year, current_year,
\* annual_rate), current_year <<>> for None and read from the clock then.
\* Amounts are returned in hundredths, depreciation_percent in tenths.
calculate_depreciation(purchase_price, purchase_year, current_year, annual_rate, clock) ==
    LET year   == IF current_year = <<>> THEN clock ELSE current_year[1]
        raised == DepreciationError(purchase_price, purchase_year, year, annual_rate)
        years_owned         == year - purchase_year
        annual_depreciation == DMul(DFromInt(purchase_price), annual_rate)
        straight            == DMul(annual_depreciation, DFromInt(years_owned))
        left                == DSub(DFromInt(purchase_price), straight)
        floored == depreciation_floor(purchase_price,
                       IF DCmp(left, DFromInt(0)) > 0 THEN left ELSE DFromInt(0),
                       straight)
    IN  IF raised # "none" THEN [raised |-> raised]
        ELSE [raised |-> "none",
              value  |-> [years_owned         |-> years_owned,
                          annual_depreciation |-> PyRoundDigits(annual_depreciation, 100),
                          total_depreciation  |->
                              PyRoundDigits(floored.total_depreciation, 100),
                          current_value       |->
                              PyRoundDigits(floored.current_value, 100),
                          depreciation_percent |->
                              PyRoundDigits(
                                  DMul(DDiv(floored.total_depreciation,
                                            DFromInt(purchase_price)), D_100), 10)]]

\* The call named by args is made.
CalculateDepreciation ==
    /\ args.op = "calculate_depreciation"
    /\ ret = NoCall
    /\ ret' = [op |-> "calculate_depreciation", at_year |-> now_year] @@
              Call(<<"calculate_depreciation", args.purchase_price,
                     args.purchase_year, args.current_year,
                     Dec(args.annual_rate, 1000), now_year>>)
    /\ UNCHANGED <<now_year, ctor, calc, result, args>>

\* One call of calculate_depreciation.  annual_rate is drawn in thousandths;
\* the arguments lie on both sides of each check and of the floor.
PurchasePrices == {-5, 0, 1, 3, 45, 1000, 150000}
PurchaseYears == {StartYear - 10, StartYear - 9, StartYear - 3, StartYear - 1,
                  StartYear, StartYear + 1, StartYear + MaxTicks + 1}
CurrentYears == {<<>>, <<StartYear>>, <<StartYear + 1>>}
AnnualRates == {0, 5, 100, 125, 300, 1000, 1001}

DepInit ==
    /\ now_year = StartYear
    /\ ctor = NoCall
    /\ calc = NoCalc
    /\ result = NoCall
    /\ ret = NoCall
    /\ args \in [op : {"calculate_depreciation"}, purchase_price : PurchasePrices,
                 purchase_year : PurchaseYears, current_year : CurrentYears,
                 annual_rate : AnnualRates]

DepNext ==
    \/ Tick
    \/ CalculateDepreciation

DepSpec == DepInit /\ [][DepNext]_vars

----------------------------------------------------------------------------
(* calculate_loan_payment *)

D_12 == DFromInt(12)

\* The test for a loan with a down payment short of the whole price only.
needs_no_loan_when_overpaid(loan_amount) == loan_amount < 0

\* if loan_amount <= 0
needs_no_loan(loan_amount) == loan_amount <= 0

\* The annuity formula and the dictionary built from it, growth being the
\* value of (1 + monthly_rate) ** loan_term_months.  Amounts are returned in
\* hundredths, interest_rate in tenths.
annuity(loan_amount, down_payment, interest_rate, loan_term_months, monthly_rate, growth) ==
    LET divisor == DSub(growth, D_1)
        monthly_payment == DDiv(DMul(DFromInt(loan_amount), DMul(monthly_rate, growth)),
                                divisor)
        total_payment   == DMul(monthly_payment, DFromInt(loan_term_months))
        total_interest  == DSub(total_payment, DFromInt(loan_amount))
    IN  IF divisor.m = <<>> THEN [raised |-> "ZeroDivisionError"]
        ELSE [raised |-> "none",
              value  |-> [loan_amount      |-> 100 * loan_amount,
                          monthly_payment  |-> PyRoundDigits(monthly_payment, 100),
                          total_payment    |->
                              PyRoundDigits(DAdd(total_payment, DFromInt(down_payment)),
                                            100),
                          total_interest   |-> PyRoundDigits(total_interest, 100),
                          down_payment     |-> 100 * down_payment,
                          interest_rate    |-> interest_rate,
                          loan_term_months |-> loan_term_months]]

\* calculate_loan_payment(car_price, down_payment, interest_rate,
\* loan_term_months), interest_rate in tenths: what the call may return.
calculate_loan_payment(car_price, down_payment, interest_rate, loan_term_months) ==
    LET loan_amount  == car_price - down_payment
        monthly_rate == DDiv(DDiv(Dec(interest_rate, 10), D_100), D_12)
    IN  IF needs_no_loan(loan_amount)
        THEN {[raised |-> "none",
               value  |-> [loan_amount     |-> 0,
                           monthly_payment |-> 0,
                           total_payment   |-> 100 * down_payment,
                           total_interest  |-> 0,
                           message         |-> "no_loan_needed"]]}
        ELSE {annuity(loan_amount, down_payment, interest_rate, loan_term_months,
                      monthly_rate, growth) :
                  growth \in DPow(DAdd(D_1, monthly_rate), loan_term_months)}

\* The call named by args is made.
CalculateLoanPayment ==
    /\ args.op = "calculate_loan_payment"
    /\ ret = NoCall
    /\ \E returned \in Call(<<"calculate_loan_payment", args.car_price,
                                args.down_payment, args.interest_rate,
                                args.loan_term_months>>) :
           ret' = [op |-> "calculate_loan_payment"] @@ returned
    /\ UNCHANGED <<now_year, ctor, calc, result, args>>

\* One call of calculate_loan_payment: down payments below, at and above the
\* price, interest rates in tenths of a percent, terms in months.
CarPrices == {0, 20000, 25000, 30000}
DownPayments == {0, 5000, 25000, 30000, 40000}
InterestRates == {0, 1, 75, 100, 125, 199}
LoanTerms == {0, 1, 2, 12, 18}

LoanInit ==
    /\ now_year = StartYear
    /\ ctor = NoCall
    /\ calc = NoCalc
    /\ result = NoCall
    /\ ret = NoCall
    /\ args \in [op : {"calculate_loan_payment"}, car_price : CarPrices,
                 down_payment : DownPayments, interest_rate : InterestRates,
                 loan_term_months : LoanTerms]

LoanNext ==
    \/ Tick
    \/ CalculateLoanPayment

LoanSpec == LoanInit /\ [][LoanNext]_vars

(***************************************************************************)
(* Statistics of the dealership library (src/utils/statistics.py):         *)
(* StatisticsCalculator, TrendAnalyzer, CarStatistics and                  *)
(* calculate_correlation, over the cars of src/models/car.py.              *)
(*                                                                         *)
(* The values of a series are floats.  Two floats are compared with DCmp,  *)
(* a float having more than one record.  What the standard library's       *)
(* statistics.variance and statistics.stdev return on two or more values   *)
(* that are not all equal is kept as a term naming the function and its    *)
(* data.  A call that raises has the value Raised(exception); where a     *)
(* method can raise, what it returns is Returned(value).                   *)
(***************************************************************************)
None == [none |-> TRUE]
Raised(error) == [raised |-> error]
Returned(value) == [raised |-> "none", value |-> value]
Term(function, data) == [term |-> function, of |-> data]

D_2 == DFromInt(2)

\* x.is_integer()
DIsInteger(x) == x.m = <<>> \/ x.e >= 0 \/ TrailingZeros(x.m) >= -x.e

\* int(x) for x >= 0
DTrunc(x) ==
    IF x.m = <<>> THEN 0
    ELSE IF x.e >= 0 THEN BToInt(BShl(x.m, x.e))
    ELSE BToInt(BShr(x.m, -x.e))

\* sum(values): the floats added from left to right
RECURSIVE Sum(_)
Sum(values) ==
    IF values = <<>> THEN DZero
    ELSE DAdd(Sum(SubSeq(values, 1, Len(values) - 1)), values[Len(values)])

\* sorted(values): each value goes behind the values not greater than it
RECURSIVE sorted(_)
sorted(values) ==
    IF values = <<>> THEN <<>>
    ELSE LET front == sorted(SubSeq(values, 1, Len(values) - 1))
             x     == values[Len(values)]
             k     == Cardinality({i \in 1..Len(front) : DCmp(front[i], x) <= 0})
         IN  SubSeq(front, 1, k) \o <<x>> \o SubSeq(front, k + 1, Len(front))

\* min(values) and max(values) of a non-empty list
Min(values) == sorted(values)[1]
Max(values) == sorted(values)[Len(values)]

AllEqual(values) == \A i \in 1..Len(values) : DCmp(values[i], values[1]) = 0

\* statistics.median(data)
statistics_median(data) ==
    LET s == sorted(data)
        n == Len(s)
    IN  IF n = 0 THEN Raised("statistics.StatisticsError")
        ELSE IF n % 2 = 1 THEN s[n \div 2 + 1]
        ELSE DDiv(DAdd(s[n \div 2], s[n \div 2 + 1]), D_2)

\* statistics.variance(data)
statistics_variance(data) ==
    IF Len(data) < 2 THEN Raised("statistics.StatisticsError")
    ELSE IF AllEqual(data) THEN DZero
    ELSE Term("variance", data)

\* statistics.stdev(data)
statistics_stdev(data) ==
    IF Len(data) < 2 THEN Raised("statistics.StatisticsError")
    ELSE IF AllEqual(data) THEN DZero
    ELSE Term("stdev", data)

\* StatisticsCalculator.mean
mean(values) ==
    IF values = <<>> THEN DZero
    ELSE DDiv(Sum(values), DFromInt(Len(values)))

\* StatisticsCalculator.median
median(values) ==
    IF values = <<>> THEN DZero
    ELSE statistics_median(values)

\* mode returning None unless a value is met twice.
mode_of_repeated_values(values) ==
    IF \A i, j \in 1..Len(values) : i # j => DCmp(values[i], values[j]) # 0
    THEN None
    ELSE LET count(i) == Cardinality({j \in 1..Len(values) :
                                          DCmp(values[j], values[i]) = 0})
             first == CHOOSE i \in 1..Len(values) :
                          /\ \A j \in 1..Len(values) : count(j) <= count(i)
                          /\ \A h \in 1..(i - 1) : count(h) < count(i)
         IN  values[first]

\* StatisticsCalculator.mode: Counter(values).most_common(1)[0][0], the value
\* counted most often, and of several such the one met first
mode(values) ==
    IF values = <<>> THEN None
    ELSE LET count(i) == Cardinality({j \in 1..Len(values) :
                                          DCmp(values[j], values[i]) = 0})
             first == CHOOSE i \in 1..Len(values) :
                          /\ \A j \in 1..Len(values) : count(j) <= count(i)
                          /\ \A h \in 1..(i - 1) : count(h) < count(i)
         IN  values[first]

\* StatisticsCalculator.variance with the guard len(values) < 1.
variance_of_one_value(values) ==
    IF Len(values) < 1 THEN DZero
    ELSE statistics_variance(values)

\* StatisticsCalculator.variance
variance(values) ==
    IF Len(values) < 2 THEN DZero
    ELSE statistics_variance(values)

\* StatisticsCalculator.std_dev
std_dev(values) ==
    IF Len(values) < 2 THEN DZero
    ELSE statistics_stdev(values)

\* StatisticsCalculator.min_value
min_value(values) ==
    IF values = <<>> THEN DZero
    ELSE Min(values)

\* StatisticsCalculator.max_value
max_value(values) ==
    IF values = <<>> THEN DZero
    ELSE Max(values)

\* index of percentile, for a list of n values
percentile_index(n, percent) ==
    DDiv(DFromInt((n - 1) * percent), D_100)

\* StatisticsCalculator.percentile reading the list as it was passed.
percentile_unsorted(values, percent) ==
    IF values = <<>> THEN DZero
    ELSE LET index == percentile_index(Len(values), percent)
             i     == DTrunc(index)
         IN  IF DIsInteger(index) THEN values[i + 1]
             ELSE DAdd(values[i + 1],
                       DMul(DSub(values[i + 2], values[i + 1]),
                            DSub(index, DFromInt(i))))

\* StatisticsCalculator.percentile, percent an int
percentile(values, percent) ==
    IF values = <<>> THEN DZero
    ELSE LET sorted_values == sorted(values)
             index == percentile_index(Len(sorted_values), percent)
             i     == DTrunc(index)
         IN  IF DIsInteger(index) THEN sorted_values[i + 1]
             ELSE DAdd(sorted_values[i + 1],
                       DMul(DSub(sorted_values[i + 2], sorted_values[i + 1]),
                            DSub(index, DFromInt(i))))

\* StatisticsCalculator.coefficient_of_variation
coefficient_of_variation(values) ==
    IF values = <<>> THEN DZero
    ELSE LET mean_val == mean(values)
             std_val  == std_dev(values)
         IN  IF mean_val.m = <<>> THEN DZero
             ELSE IF "term" \in DOMAIN std_val
                      THEN Term("truediv", <<std_val, mean_val>>)
             ELSE DDiv(std_val, mean_val)

\* StatisticsCalculator.skewness
skewness(values) ==
    IF Len(values) < 3 THEN DZero
    ELSE LET std_val == std_dev(values)
         IN  IF "term" \notin DOMAIN std_val THEN DZero
             ELSE Term("skewness", values)

\* A static method of StatisticsCalculator is called on the series of args.
CallHelper(helper) ==
    /\ args.op = "StatisticsCalculator"
    /\ ret' = [op |-> helper, value |-> Call(<<helper, args.values>>)]
    /\ UNCHANGED <<now_year, ctor, calc, result, args>>

\* StatisticsCalculator.percentile is called on the series of args.
CallPercentile(percent) ==
    /\ args.op = "StatisticsCalculator"
    /\ ret' = [op |-> "percentile", percent |-> percent,
               value |-> Call(<<"percentile", args.values, percent>>)]
    /\ UNCHANGED <<now_year, ctor, calc, result, args>>

Helpers == {"mean", "median", "mode", "variance", "std_dev", "min_value",
            "max_value", "coefficient_of_variation", "skewness"}
Percents == {0, 25, 50, 75, 100}

\* The series: every list of at most three of these values, among them 0,
\* a value that is not an integer, and integers.
SeriesValues == {DZero, Dec(2, 10), D_1, DFromInt(3)}
SeriesInputs == UNION {[1..n -> SeriesValues] : n \in 0..3}

SeriesInit ==
    /\ now_year = StartYear
    /\ ctor = NoCall
    /\ calc = NoCalc
    /\ result = NoCall
    /\ ret = NoCall
    /\ args \in {[op |-> "StatisticsCalculator", values |-> v] : v \in SeriesInputs}

SeriesNext ==
    \/ \E helper \in Helpers : CallHelper(helper)
    \/ \E percent \in Percents : CallPercentile(percent)

SeriesSpec == SeriesInit /\ [][SeriesNext]_vars

\* A dict is the sequence of its <<key, value>> items in insertion order.
DictKeys(d) == {d[i][1] : i \in 1..Len(d)}

\* d.get(key, default)
DictGet(d, key, default) ==
    IF key \in DictKeys(d)
    THEN d[CHOOSE i \in 1..Len(d) : d[i][1] = key][2]
    ELSE default

\* d[key] = value: a key already there keeps its place
DictSet(d, key, value) ==
    IF key \in DictKeys(d)
    THEN [i \in 1..Len(d) |-> IF d[i][1] = key THEN <<key, value>> ELSE d[i]]
    ELSE Append(d, <<key, value>>)

\* sorted(s) by a strict order, equal elements staying in their order
SortedBy(s, Less(_, _)) ==
    LET rank(i) == 1 + Cardinality({j \in 1..Len(s) :
                           \/ Less(s[j], s[i])
                           \/ ~Less(s[i], s[j]) /\ j < i})
    IN  [r \in 1..Len(s) |-> s[CHOOSE i \in 1..Len(s) : rank(i) = r]]

ByKey(a, b) == a[1] < b[1]
ByCountDescending(a, b) == a[2] > b[2]

\* for key in keys: distribution[key] = distribution.get(key, 0) + 1
RECURSIVE Counted(_)
Counted(keys) ==
    IF keys = <<>> THEN <<>>
    ELSE LET distribution == Counted(SubSeq(keys, 1, Len(keys) - 1))
             key          == keys[Len(keys)]
         IN  DictSet(distribution, key, DictGet(distribution, key, 0) + 1)

\* A Car of src/models/car.py with the fields the statistics read.  price and
\* mileage are floats; status is the name of the CarStatus member, whose
\* value is a string of its own.
NewCar(brand, year, price, mileage, color, condition, status) ==
    [brand |-> brand, year |-> year, price |-> price, mileage |-> mileage,
     color |-> color, condition |-> condition, status |-> status]

\* Car._validate raises nothing for the car
ValidCar(car, current_year) ==
    /\ car.brand # ""
    /\ ~(car.year < MinYear \/ car.year > current_year + 1)
    /\ ~(DCmp(car.price, DZero) <= 0)
    /\ ~(DCmp(car.mileage, DZero) < 0)

\* Car.get_age
get_age(car, clock) == clock - car.year

\* str.lower() on the brand names of the model
Lower ==
    [name \in {"Toyota", "TOYOTA", "toyota", "BMW", "bmw", "Lada"} |->
        CASE name \in {"Toyota", "TOYOTA", "toyota"} -> "toyota"
          [] name \in {"BMW", "bmw"} -> "bmw"
          [] name = "Lada" -> "lada"]

\* format_condition(condition) of src/utils/formatter.py in Russian, the
\* Russian names written in Latin letters; an unknown code is returned as is
format_condition(condition) ==
    CASE condition = "excellent" -> "Otlichnoe"
      [] condition = "good"      -> "Khoroshee"
      [] condition = "average"   -> "Srednee"
      [] condition = "poor"      -> "Plokhoe"
      [] condition = "damaged"   -> "Povrezhden"
      [] OTHER                   -> condition

\* [f(c) for c in cars]
Map(cars, f(_)) == [i \in 1..Len(cars) |-> f(cars[i])]

PriceOf(car) == car.price
YearOf(car) == car.year
MileageOf(car) == car.mileage
IsPositive(x) == DCmp(x, DZero) > 0

\* CarStatistics.__init__ without _validate_data.
CarStatistics_unvalidated(cars, clock) ==
    LET age(car) == get_age(car, clock)
    IN  [exists |-> TRUE, class |-> "CarStatistics", cars |-> cars,
         prices |-> SelectSeq(Map(cars, PriceOf), IsPositive),
         years |-> Map(cars, YearOf),
         mileages |-> SelectSeq(Map(cars, MileageOf), IsPositive),
         ages |-> Map(cars, age)]

\* CarStatistics.__init__: the object, or what _validate_data raises
CarStatistics(cars, clock) ==
    IF cars = <<>> THEN Raised("StatisticsError")
    ELSE LET age(car) == get_age(car, clock)
         IN  [exists |-> TRUE, class |-> "CarStatistics", cars |-> cars,
              prices |-> SelectSeq(Map(cars, PriceOf), IsPositive),
              years |-> Map(cars, YearOf),
              mileages |-> SelectSeq(Map(cars, MileageOf), IsPositive),
              ages |-> Map(cars, age)]

\* distribution[label] = count in get_price_distribution
price_distribution_item(distribution, label, count) ==
    DictSet(distribution, label, count)

\* The loop of get_price_distribution over range(bins), up to bin i.  A label
\* f"{lower:,.0f} - {upper:,.0f}" is held as the pair of the two integers it
\* shows.
RECURSIVE price_distribution_bins(_, _, _, _, _, _)
price_distribution_bins(prices, min_price, max_price, bin_size, bins, i) ==
    IF i < 0 THEN <<>>
    ELSE LET distribution ==
                 price_distribution_bins(prices, min_price, max_price,
                                         bin_size, bins, i - 1)
             lower == DAdd(min_price, DMul(DFromInt(i), bin_size))
             upper == IF i = bins - 1 THEN DAdd(max_price, D_1)
                      ELSE DAdd(lower, bin_size)
             count == Cardinality({j \in 1..Len(prices) :
                                       /\ DCmp(lower, prices[j]) <= 0
                                       /\ DCmp(prices[j], upper) < 0})
             label == <<PyRound(lower), PyRound(upper)>>
         IN  price_distribution_item(distribution, label, count)

\* CarStatistics.get_price_distribution, bins >= 1
get_price_distribution(self, bins) ==
    IF self.prices = <<>> THEN <<>>
    ELSE LET min_price == Min(self.prices)
             max_price == Max(self.prices)
             bin_size  == IF DCmp(max_price, min_price) > 0
                          THEN DDiv(DSub(max_price, min_price), DFromInt(bins))
                          ELSE D_1
         IN  price_distribution_bins(self.prices, min_price, max_price,
                                     bin_size, bins, bins - 1)

\* CarStatistics.get_year_distribution
get_year_distribution(self) ==
    SortedBy(Counted(Map(self.cars, YearOf)), ByKey)

\* CarStatistics.get_brand_distribution
get_brand_distribution(self) ==
    LET brand(car) == car.brand
    IN  SortedBy(Counted(Map(self.cars, brand)), ByCountDescending)

\* CarStatistics.get_status_distribution
get_status_distribution(self) ==
    LET status(car) == car.status
    IN  Counted(Map(self.cars, status))

\* CarStatistics.get_color_distribution
get_color_distribution(self) ==
    LET color(car) == car.color
    IN  SortedBy(Counted(Map(self.cars, color)), ByCountDescending)

\* CarStatistics.get_condition_distribution
get_condition_distribution(self) ==
    LET condition_display(car) == format_condition(car.condition)
    IN  Counted(Map(self.cars, condition_display))

\* age_groups of get_price_analysis_by_age: the names and range(first, stop)
AgeGroups ==
    <<[name |-> "new", first |-> 0, stop |-> 2],
      [name |-> "young", first |-> 2, stop |-> 4],
      [name |-> "medium", first |-> 4, stop |-> 7],
      [name |-> "old", first |-> 7, stop |-> 11],
      [name |-> "vintage", first |-> 11, stop |-> 100]>>

\* The groups an age is in
GroupsOf(age) ==
    {g \in 1..Len(AgeGroups) : AgeGroups[g].first <= age /\ age < AgeGroups[g].stop}

\* The prices appended to group g, in the order of the cars: a car goes to the
\* first group that has its age
GroupPrices(self, clock, g) ==
    LET in_group(car) == /\ GroupsOf(get_age(car, clock)) # {}
                         /\ \A h \in GroupsOf(get_age(car, clock)) : g <= h
                         /\ g \in GroupsOf(get_age(car, clock))
    IN  Map(SelectSeq(self.cars, in_group), PriceOf)

\* The items of result up to group g: a group without prices has none
RECURSIVE age_group_items(_, _, _)
age_group_items(self, clock, g) ==
    IF g = 0 THEN <<>>
    ELSE LET items  == age_group_items(self, clock, g - 1)
             prices == GroupPrices(self, clock, g)
         IN  IF prices = <<>> THEN items
             ELSE DictSet(items, AgeGroups[g].name,
                          [count     |-> Len(prices),
                           avg_price |-> mean(prices),
                           min_price |-> Min(prices),
                           max_price |-> Max(prices),
                           median    |-> median(prices)])

\* CarStatistics.get_price_analysis_by_age
get_price_analysis_by_age(self, clock) ==
    age_group_items(self, clock, Len(AgeGroups))

\* The cars of a brand as get_brand_comparison selects them, by the name as
\* it is written.
cars_of_brand_exactly(cars, brand) ==
    LET of_brand(c) == c.brand = brand
    IN  SelectSeq(cars, of_brand)

\* [c for c in self.cars if c.brand.lower() == brand.lower()]
cars_of_brand(cars, brand) ==
    LET of_brand(c) == Lower[c.brand] = Lower[brand]
    IN  SelectSeq(cars, of_brand)

\* The summary of one brand in get_brand_comparison
brand_summary(selected, clock) ==
    LET prices   == Map(selected, PriceOf)
        age(car) == DFromInt(get_age(car, clock))
    IN  [count        |-> Len(selected),
         avg_price    |-> mean(prices),
         median_price |-> median(prices),
         price_range  |-> <<Min(prices), Max(prices)>>,
         avg_age      |-> mean(Map(selected, age)),
         total_value  |-> Sum(prices),
         distribution |-> get_status_distribution(CarStatistics(selected, clock))]

\* CarStatistics.get_brand_comparison
get_brand_comparison(self, brand1, brand2, clock) ==
    LET cars1 == cars_of_brand(self.cars, brand1)
        cars2 == cars_of_brand(self.cars, brand2)
    IN  IF cars1 = <<>> \/ cars2 = <<>> THEN Raised("StatisticsError")
        ELSE LET mean1 == mean(Map(cars1, PriceOf))
                 mean2 == mean(Map(cars2, PriceOf))
                 comparison ==
                     [price_difference |-> DSub(mean1, mean2),
                      price_ratio      |-> IF DCmp(mean2, DZero) > 0
                                           THEN DDiv(mean1, mean2) ELSE DZero,
                      count_difference |-> Len(cars1) - Len(cars2)]
             IN  Returned(DictSet(DictSet(DictSet(<<>>,
                     brand1, brand_summary(cars1, clock)),
                     brand2, brand_summary(cars2, clock)),
                     "comparison", comparison))

\* numerator of pearson_corr
Numerator(x_list, y_list, mean_x, mean_y) ==
    Sum([i \in 1..Len(x_list) |->
            DMul(DSub(x_list[i], mean_x), DSub(y_list[i], mean_y))])

\* sum((x - mean_x) ** 2 for x in x_list) ** 0.5 == 0: a square and a square
\* root are 0 for 0 only, and a sum of squares when each of them is
DenominatorIsZero(x_list, mean_x) ==
    \A i \in 1..Len(x_list) : DCmp(x_list[i], mean_x) = 0

\* pearson_corr of calculate_correlation.  A coefficient that is not 0 is
\* kept as a term.
pearson_corr(x_list, y_list) ==
    LET n      == Len(x_list)
        mean_x == DDiv(Sum(x_list), DFromInt(n))
        mean_y == DDiv(Sum(y_list), DFromInt(n))
        numerator == Numerator(x_list, y_list, mean_x, mean_y)
    IN  IF n < 2 THEN DZero
        ELSE IF DenominatorIsZero(x_list, mean_x) \/ DenominatorIsZero(y_list, mean_y)
             THEN DZero
        ELSE IF numerator.m = <<>> THEN DZero
        ELSE Term("pearson_corr", <<x_list, y_list>>)

\* calculate_correlation
calculate_correlation(cars, clock) ==
    IF Len(cars) < 2 THEN <<>>
    ELSE LET year(car) == DFromInt(car.year)
             age(car)  == DFromInt(get_age(car, clock))
             prices    == Map(cars, PriceOf)
             years     == Map(cars, year)
             mileages  == Map(cars, MileageOf)
             ages      == Map(cars, age)
         IN  <<<<"price_year", pearson_corr(prices, years)>>,
               <<"price_mileage", pearson_corr(prices, mileages)>>,
               <<"price_age", pearson_corr(prices, ages)>>,
               <<"year_mileage", pearson_corr(years, mileages)>>,
               <<"age_mileage", pearson_corr(ages, mileages)>> >>

\* float('inf')
Infinity == [inf |-> TRUE]

\* A point of a series is <<date, value>>, the date a number of days.
DateOf(point) == point[1]
ValueOf(point) == point[2]

\* TrendAnalyzer.__init__ sorting with data.sort(key=...), in place.
TrendAnalyzer_sorting_in_place(data) ==
    LET sorted_data == SortedBy(data, ByKey)
    IN  [self |-> [exists |-> TRUE, class |-> "TrendAnalyzer",
                   data |-> sorted_data,
                   dates |-> Map(sorted_data, DateOf),
                   values |-> Map(sorted_data, ValueOf)],
         data |-> sorted_data]

\* TrendAnalyzer.__init__: the object, and the list passed as the call
\* leaves it
TrendAnalyzer(data) ==
    LET sorted_data == SortedBy(data, ByKey)
    IN  [self |-> [exists |-> TRUE, class |-> "TrendAnalyzer",
                   data |-> sorted_data,
                   dates |-> Map(sorted_data, DateOf),
                   values |-> Map(sorted_data, ValueOf)],
         data |-> data]

\* (values[i] - values[i-1]) / values[i-1] * 100, i counted from 0
StepGrowth(values, i) ==
    DMul(DDiv(DSub(values[i + 1], values[i]), values[i]), D_100)

\* The terms of the sum in growth_rate: the steps from a value that is not 0
GrowthSteps(values) ==
    LET counted(i) == values[i].m # <<>>
        step(i)    == StepGrowth(values, i)
    IN  Map(SelectSeq([i \in 1..(Len(values) - 1) |-> i], counted), step)

\* TrendAnalyzer.growth_rate
growth_rate(self) ==
    IF Len(self.values) < 2
    THEN [total_growth |-> DZero, average_growth |-> DZero]
    ELSE LET first == self.values[1]
             last  == self.values[Len(self.values)]
             total_growth ==
                 IF first.m = <<>>
                 THEN IF DCmp(last, DZero) > 0 THEN Infinity ELSE DZero
                 ELSE DMul(DDiv(DSub(last, first), first), D_100)
             avg_growth ==
                 IF Len(self.values) > 2
                 THEN DDiv(Sum(GrowthSteps(self.values)),
                           DFromInt(Len(self.values) - 1))
                 ELSE total_growth
         IN  [total_growth |-> total_growth, average_growth |-> avg_growth,
              first_value |-> first, last_value |-> last]

\* CarStatistics(cars) on the list of args
ConstructStatistics ==
    /\ args.op = "CarStatistics"
    /\ ctor = NoCall
    /\ LET made == Call(<<"CarStatistics", args.cars, now_year>>)
       IN  /\ ctor' = [op |-> "CarStatistics", at_year |-> now_year,
                       raised |-> IF "raised" \in DOMAIN made THEN made.raised
                                  ELSE "none"]
           /\ calc' = IF "raised" \in DOMAIN made THEN NoCalc ELSE made
    /\ UNCHANGED <<now_year, result, ret, args>>

\* A method of CarStatistics that takes no argument is called.
CallStatistics(method) ==
    /\ calc.exists
    /\ calc.class = "CarStatistics"
    /\ ret' = [op |-> method, at_year |-> now_year,
               value |-> Call(<<method, calc, now_year>>)]
    /\ UNCHANGED <<now_year, ctor, calc, result, args>>

\* get_price_distribution(bins)
GetPriceDistribution(bins) ==
    /\ calc.exists
    /\ calc.class = "CarStatistics"
    /\ ret' = [op |-> "get_price_distribution", bins |-> bins,
               value |-> Call(<<"get_price_distribution", calc, bins>>)]
    /\ UNCHANGED <<now_year, ctor, calc, result, args>>

\* get_brand_comparison(brand1, brand2)
GetBrandComparison(brand1, brand2) ==
    /\ calc.exists
    /\ calc.class = "CarStatistics"
    /\ ret' = [op |-> "get_brand_comparison", brand1 |-> brand1, brand2 |-> brand2,
               at_year |-> now_year,
               outcome |-> Call(<<"get_brand_comparison", calc, brand1, brand2,
                                  now_year>>)]
    /\ UNCHANGED <<now_year, ctor, calc, result, args>>

\* calculate_correlation(cars) on the list of args
CalculateCorrelation ==
    /\ args.op = "CarStatistics"
    /\ ret' = [op |-> "calculate_correlation", at_year |-> now_year,
               value |-> Call(<<"calculate_correlation", args.cars, now_year>>)]
    /\ UNCHANGED <<now_year, ctor, calc, result, args>>

\* TrendAnalyzer(data) on the list of args
ConstructAnalyzer ==
    /\ args.op = "TrendAnalyzer"
    /\ ctor = NoCall
    /\ LET made == Call(<<"TrendAnalyzer", args.data>>)
       IN  /\ ctor' = [op |-> "TrendAnalyzer", at_year |-> now_year,
                       raised |-> "none"]
           /\ calc' = made.self
           /\ args' = [args EXCEPT !.data = made.data]
    /\ UNCHANGED <<now_year, result, ret>>

\* growth_rate()
GrowthRate ==
    /\ calc.exists
    /\ calc.class = "TrendAnalyzer"
    /\ ret' = [op |-> "growth_rate", value |-> Call(<<"growth_rate", calc>>)]
    /\ UNCHANGED <<now_year, ctor, calc, result, args>>

Distributions ==
    {"get_year_distribution", "get_brand_distribution", "get_status_distribution",
     "get_color_distribution", "get_condition_distribution"}
StatisticsMethods == Distributions \cup {"get_price_analysis_by_age"}
Brands == {"toyota", "BMW", "Lada"}
Bins == {1, 3, 10}

\* The cars of the lists: the newest and the oldest year a Car accepts, brand
\* names that differ in case only, prices that are and are not integers, and
\* a condition that is none of the five codes. A price or a mileage <<n, d>>
\* is the float n / d.
CarRows ==
    [toyota |-> [brand |-> "Toyota", year |-> StartYear + 1, price |-> <<1, 1>>,
                 mileage |-> <<0, 1>>, color |-> "white", condition |-> "good",
                 status |-> "AVAILABLE"],
     TOYOTA |-> [brand |-> "TOYOTA", year |-> StartYear - 3, price |-> <<2, 1>>,
                 mileage |-> <<45000, 1>>, color |-> "black",
                 condition |-> "excellent", status |-> "SOLD"],
     bmw    |-> [brand |-> "BMW", year |-> MinYear, price |-> <<1, 10>>,
                 mileage |-> <<120000, 1>>, color |-> "white",
                 condition |-> "Khoroshee", status |-> "RESERVED"],
     bmw4   |-> [brand |-> "bmw", year |-> StartYear - 4, price |-> <<1, 10>>,
                 mileage |-> <<1, 10>>, color |-> "black", condition |-> "good",
                 status |-> "AVAILABLE"],
     lada   |-> [brand |-> "Lada", year |-> StartYear - 10, price |-> <<1, 10>>,
                 mileage |-> <<200000, 1>>, color |-> "white",
                 condition |-> "poor", status |-> "AVAILABLE"]]
\* The car of a row, amounts being its price and its mileage as floats
CarOfRow(row, amounts) ==
    NewCar(row.brand, row.year, amounts.price, amounts.mileage, row.color,
           row.condition, row.status)
Cars ==
    [name \in DOMAIN CarRows |->
        CarOfRow(CarRows[name],
                 [field \in {"price", "mileage"} |->
                     Dec(CarRows[name][field][1], CarRows[name][field][2])])]
CarLists ==
    {[i \in DOMAIN names |-> Cars[names[i]]] :
        names \in {<<>>, <<"bmw">>, <<"toyota", "TOYOTA">>, <<"TOYOTA", "TOYOTA">>,
                   <<"bmw", "bmw4", "lada">>, <<"toyota", "TOYOTA", "bmw">>,
                   <<"bmw4", "toyota", "bmw4">>}}

\* The series of <<date, value>>: of no, one, two and three points, in and
\* out of the order of their dates, with and without the value 0.
Points ==
    {<<>>, << <<1, 10>> >>, << <<1, 0>>, <<2, 10>> >>, << <<2, 10>>, <<1, 0>> >>,
     << <<1, 10>>, <<2, 20>> >>, << <<1, 0>>, <<2, 0>> >>,
     << <<1, 0>>, <<2, 10>>, <<3, 20>> >>, << <<3, 20>>, <<1, 10>>, <<2, 0>> >>,
     << <<1, 10>>, <<2, 20>>, <<3, 30>> >>, << <<3, 10>>, <<2, 20>>, <<1, 5>> >>,
     << <<1, 0>>, <<2, 0>>, <<3, 5>> >>}
Series ==
    {[i \in DOMAIN points |-> <<points[i][1], DFromInt(points[i][2])>>] :
        points \in Points}

StatInit ==
    /\ now_year = StartYear
    /\ ctor = NoCall
    /\ calc = NoCalc
    /\ result = NoCall
    /\ ret = NoCall
    /\ args \in {[op |-> "CarStatistics", cars |-> cars] : cars \in CarLists}
               \cup {[op |-> "TrendAnalyzer", data |-> data] : data \in Series}

StatNext ==
    \/ Tick
    \/ ConstructStatistics
    \/ \E method \in StatisticsMethods : CallStatistics(method)
    \/ \E bins \in Bins : GetPriceDistribution(bins)
    \/ \E brand1, brand2 \in Brands : GetBrandComparison(brand1, brand2)
    \/ CalculateCorrelation
    \/ ConstructAnalyzer
    \/ GrowthRate

StatSpec == StatInit /\ [][StatNext]_vars

----------------------------------------------------------------------------
(* TrendAnalyzer.linear_trend, moving_average and forecast.  A date is the *)
(* number of its day, so that (d - start_date).days is a difference.       *)

\* sum(x) of a list of ints
RECURSIVE SumInt(_)
SumInt(x) == IF x = <<>> THEN 0 ELSE x[1] + SumInt(Tail(x))

\* sum(t ** 2 for t in terms): every value the sum may take, each square
\* being one of the values of DPow
RECURSIVE SumsOfSquares(_)
SumsOfSquares(terms) ==
    IF terms = <<>> THEN {DZero}
    ELSE {DAdd(s, p) : s \in SumsOfSquares(SubSeq(terms, 1, Len(terms) - 1)),
                       p \in DPow(terms[Len(terms)], 2)}

\* x of linear_trend: [(d - start_date).days for d in self.dates]
DaysFromStart(self) == [i \in DOMAIN self.dates |-> self.dates[i] - self.dates[1]]

\* The label with a slope of 0 counted as rising.
trend_label_rising_from_zero(slope) ==
    IF DCmp(slope, DZero) >= 0 THEN "rising" ELSE "falling"

\* 'rising' if slope > 0 else 'falling' if slope < 0 else 'stable'
trend_label(slope) ==
    IF DCmp(slope, DZero) > 0 THEN "rising"
    ELSE IF DCmp(slope, DZero) < 0 THEN "falling"
    ELSE "stable"

\* The result of linear_trend that has no slope to report.
NoTrend == [slope |-> DZero, intercept |-> DZero, r_squared |-> DZero]

\* slope of linear_trend
trend_slope(n, sum_x, sum_y, sum_xy, denominator) ==
    DDiv(DSub(DMul(DFromInt(n), sum_xy), DMul(DFromInt(sum_x), sum_y)),
         DFromInt(denominator))

\* intercept of linear_trend
trend_intercept(n, sum_x, sum_y, slope) ==
    DDiv(DSub(sum_y, DMul(slope, DFromInt(sum_x))), DFromInt(n))

\* TrendAnalyzer.linear_trend: the results the call may return
linear_trend(self) ==
    IF Len(self.data) < 2 THEN {NoTrend}
    ELSE LET x      == DaysFromStart(self)
             y      == self.values
             n      == Len(x)
             sum_x  == SumInt(x)
             sum_y  == Sum(y)
             sum_xy == Sum([i \in 1..n |-> DMul(DFromInt(x[i]), y[i])])
             sum_x2 == SumInt([i \in 1..n |-> x[i] * x[i]])
             denominator == n * sum_x2 - sum_x * sum_x
         IN  IF denominator = 0 THEN {NoTrend}
             ELSE LET slope     == trend_slope(n, sum_x, sum_y, sum_xy, denominator)
                      intercept == trend_intercept(n, sum_x, sum_y, slope)
                      y_mean    == DDiv(sum_y, DFromInt(n))
                      ss_tot    == SumsOfSquares([i \in 1..n |-> DSub(y[i], y_mean)])
                      ss_reg    ==
                          SumsOfSquares(
                              [i \in 1..n |->
                                  DSub(DAdd(DMul(slope, DFromInt(x[i])), intercept),
                                       y_mean)])
                  IN  {[slope     |-> slope,
                        intercept |-> intercept,
                        r_squared |-> IF DCmp(tot, DZero) > 0 THEN DDiv(reg, tot)
                                      ELSE DZero,
                        trend     |-> trend_label(slope)] :
                          tot \in ss_tot, reg \in ss_reg}

\* moving_average with the last window left out.
moving_average_without_last_window(self, window) ==
    IF Len(self.values) < window THEN self.values
    ELSE [i \in 1..(Len(self.values) - window) |->
             DDiv(Sum(SubSeq(self.values, i, i + window - 1)), DFromInt(window))]

\* TrendAnalyzer.moving_average(window), window >= 1
moving_average(self, window) ==
    IF Len(self.values) < window THEN self.values
    ELSE [i \in 1..(Len(self.values) - window + 1) |->
             DDiv(Sum(SubSeq(self.values, i, i + window - 1)), DFromInt(window))]

\* value of forecast on the day days_from_start
forecast_value(slope, intercept, days_from_start) ==
    DAdd(DMul(slope, DFromInt(days_from_start)), intercept)

\* max(0, value)
NotBelowZero(value) == IF DCmp(value, DZero) > 0 THEN value ELSE DZero

\* forecast appending (date, value) as computed.
forecast_unclamped(self, days_ahead) ==
    LET trend == CHOOSE t \in Call(<<"linear_trend", self>>) : TRUE
    IN  IF self.dates = <<>> THEN <<>>
        ELSE LET start_date == self.dates[1]
                 last_date  == self.dates[Len(self.dates)]
             IN  [i \in 1..days_ahead |->
                     <<last_date + i,
                       forecast_value(trend.slope, trend.intercept,
                                      last_date + i - start_date)>>]

\* TrendAnalyzer.forecast(days_ahead): slope and intercept are the same in
\* every result linear_trend may return
forecast(self, days_ahead) ==
    LET trend == CHOOSE t \in Call(<<"linear_trend", self>>) : TRUE
    IN  IF self.dates = <<>> THEN <<>>
        ELSE LET start_date == self.dates[1]
                 last_date  == self.dates[Len(self.dates)]
             IN  [i \in 1..days_ahead |->
                     <<last_date + i,
                       NotBelowZero(forecast_value(trend.slope, trend.intercept,
                                                   last_date + i - start_date))>>]

----------------------------------------------------------------------------
(* CarStatistics.get_price_statistics, get_top_brands and                  *)
(* get_depreciation_analysis                                               *)

\* CarStatistics.get_price_statistics
get_price_statistics(self) ==
    IF self.prices = <<>> THEN <<>>
    ELSE << <<"count", Len(self.prices)>>,
            <<"sum", Sum(self.prices)>>,
            <<"mean", Call(<<"mean", self.prices>>)>>,
            <<"median", Call(<<"median", self.prices>>)>>,
            <<"mode", Call(<<"mode", self.prices>>)>>,
            <<"min", Call(<<"min_value", self.prices>>)>>,
            <<"max", Call(<<"max_value", self.prices>>)>>,
            <<"std_dev", Call(<<"std_dev", self.prices>>)>>,
            <<"variance", Call(<<"variance", self.prices>>)>>,
            <<"cv", Call(<<"coefficient_of_variation", self.prices>>)>>,
            <<"q1", Call(<<"percentile", self.prices, 25>>)>>,
            <<"q3", Call(<<"percentile", self.prices, 75>>)>>,
            <<"iqr", DSub(Call(<<"percentile", self.prices, 75>>),
                          Call(<<"percentile", self.prices, 25>>))>> >>

\* min(years) and max(years) of a non-empty list of ints
MinOf(years) == CHOOSE y \in {years[i] : i \in DOMAIN years} :
                    \A i \in DOMAIN years : y <= years[i]
MaxOf(years) == CHOOSE y \in {years[i] : i \in DOMAIN years} :
                    \A i \in DOMAIN years : y >= years[i]

\* The first loop of get_top_brands: brand_stats, the prices and the years
\* of each brand in the order of the cars
RECURSIVE brand_stats(_)
brand_stats(cars) ==
    IF cars = <<>> THEN <<>>
    ELSE LET stats == brand_stats(SubSeq(cars, 1, Len(cars) - 1))
             car   == cars[Len(cars)]
             old   == DictGet(stats, car.brand,
                              [count |-> 0, total_price |-> DZero,
                               prices |-> <<>>, years |-> <<>>])
         IN  DictSet(stats, car.brand,
                     [count       |-> old.count + 1,
                      total_price |-> DAdd(old.total_price, car.price),
                      prices      |-> Append(old.prices, car.price),
                      years       |-> Append(old.years, car.year)])

\* The entry of get_top_brands for an item of brand_stats
top_brand_entry(item) ==
    LET stats == item[2]
    IN  [brand       |-> item[1],
         count       |-> stats.count,
         avg_price   |-> DDiv(stats.total_price, DFromInt(stats.count)),
         total_value |-> stats.total_price,
         min_year    |-> MinOf(stats.years),
         max_year    |-> MaxOf(stats.years),
         price_std   |-> IF Len(stats.prices) > 1
                         THEN Call(<<"std_dev", stats.prices>>) ELSE DZero]

\* key=lambda x: x['count'], reverse=True
ByEntryCountDescending(a, b) == a.count > b.count

\* s[:limit]
SliceUpTo(s, limit) ==
    IF limit >= 0 THEN SubSeq(s, 1, IF limit < Len(s) THEN limit ELSE Len(s))
    ELSE SubSeq(s, 1, IF Len(s) + limit > 0 THEN Len(s) + limit ELSE 0)

\* get_top_brands returning the entries in the order the brands were met.
get_top_brands_unsorted(self, limit) ==
    SliceUpTo(Map(brand_stats(self.cars), top_brand_entry), limit)

\* CarStatistics.get_top_brands(limit)
get_top_brands(self, limit) ==
    SliceUpTo(SortedBy(Map(brand_stats(self.cars), top_brand_entry),
                       ByEntryCountDescending),
              limit)

\* cars_by_year of get_depreciation_analysis: the prices of each year in the
\* order of the cars
RECURSIVE cars_by_year(_)
cars_by_year(cars) ==
    IF cars = <<>> THEN <<>>
    ELSE LET by_year == cars_by_year(SubSeq(cars, 1, Len(cars) - 1))
             car     == cars[Len(cars)]
         IN  DictSet(by_year, car.year,
                     Append(DictGet(by_year, car.year, <<>>), car.price))

\* The rate of a step taken against the average of the later year.
depreciation_rate_of_later_year(previous, current) ==
    DMul(DDiv(DSub(previous, current), current), D_100)

\* (avg_prices[i-1] - avg_prices[i]) / avg_prices[i-1] * 100
depreciation_rate(previous, current) ==
    DMul(DDiv(DSub(previous, current), previous), D_100)

\* CarStatistics.get_depreciation_analysis; years_range, the string
\* f"{years[0]}-{years[-1]}", is held as the pair of the two years
get_depreciation_analysis(self) ==
    IF Len(self.cars) < 2 THEN <<>>
    ELSE LET by_year == SortedBy(cars_by_year(self.cars), ByKey)
             years   == Map(by_year, DateOf)
             avg_prices == [i \in 1..Len(by_year) |->
                               Call(<<"mean", by_year[i][2]>>)]
             counted(i) == DCmp(avg_prices[i - 1], DZero) > 0
             rate(i)    == depreciation_rate(avg_prices[i - 1], avg_prices[i])
             depreciation_rates ==
                 Map(SelectSeq([i \in 1..(Len(avg_prices) - 1) |-> i + 1], counted),
                     rate)
             oldest == avg_prices[1]
             newest == avg_prices[Len(avg_prices)]
         IN  IF Len(years) < 2 THEN <<>>
             ELSE << <<"avg_annual_depreciation",
                       IF depreciation_rates # <<>>
                       THEN Call(<<"mean", depreciation_rates>>) ELSE DZero>>,
                     <<"total_depreciation",
                       IF DCmp(oldest, DZero) > 0
                       THEN depreciation_rate(oldest, newest) ELSE DZero>>,
                     <<"years_range", <<years[1], years[Len(years)]>> >>,
                     <<"oldest_avg_price", oldest>>,
                     <<"newest_avg_price", newest>> >>

----------------------------------------------------------------------------
(* Dealership (src/models/dealership.py): create_transaction,              *)
(* complete_transaction and cancel_transaction.  A car is named by its     *)
(* place in the list of cars, which holds its status; a transaction holds  *)
(* the place of its car, its status and its transaction_id, the ids being  *)
(* taken as distinct and numbered in the order of creation.  Customer,     *)
(* employee, price and payment method take no part in the three methods.   *)

\* is_available taking a reserved car as available too.
is_available_or_reserved(car) == car.status \in {"AVAILABLE", "RESERVED"}

\* Car.is_available
is_available(car) == car.status = "AVAILABLE"

\* Dealership.create_transaction(car, ...): the dealership after the call,
\* and what the call raised or returned
create_transaction(self, car) ==
    IF ~is_available(self.cars[car])
    THEN [self |-> self, raised |-> "ValueError"]
    ELSE LET transaction == [transaction_id |-> Len(self.transactions) + 1,
                             car |-> car, status |-> "PENDING"]
         IN  [self   |-> [self EXCEPT
                             !.transactions = Append(@, transaction),
                             !.cars[car].status = "RESERVED"],
              raised |-> "none",
              value  |-> transaction.transaction_id]

\* The first transaction with the id, 0 if there is none
FirstWithId(self, transaction_id) ==
    LET found == {i \in DOMAIN self.transactions :
                      self.transactions[i].transaction_id = transaction_id}
    IN  IF found = {} THEN 0
        ELSE CHOOSE i \in found : \A j \in found : i <= j

\* DealershipTransaction.complete and DealershipTransaction.cancel, by the
\* status they give the transaction and its car
transaction_closed(self, i, status, car_status) ==
    [self EXCEPT !.transactions[i].status = status,
                 !.cars[self.transactions[i].car].status = car_status]

\* Dealership.complete_transaction(transaction_id)
complete_transaction(self, transaction_id) ==
    LET i == FirstWithId(self, transaction_id)
    IN  IF i = 0 THEN [self |-> self, raised |-> "none", value |-> FALSE]
        ELSE [self   |-> transaction_closed(self, i, "COMPLETED", "SOLD"),
              raised |-> "none", value |-> TRUE]

\* Dealership.cancel_transaction(transaction_id)
cancel_transaction(self, transaction_id) ==
    LET i == FirstWithId(self, transaction_id)
    IN  IF i = 0 THEN [self |-> self, raised |-> "none", value |-> FALSE]
        ELSE [self   |-> transaction_closed(self, i, "CANCELLED", "AVAILABLE"),
              raised |-> "none", value |-> TRUE]

----------------------------------------------------------------------------
(* Calls *)

\* The value of a call of a method or function of the program.
Method(call) ==
    CASE call[1] = "calculate_age_factor" -> calculate_age_factor(call[2])
      [] call[1] = "calculate_mileage_factor" -> calculate_mileage_factor(call[2])
      [] call[1] = "calculate_condition_factor" -> calculate_condition_factor(call[2])
      [] call[1] = "calculate_market_price" -> calculate_market_price(call[2])
      [] call[1] = "get_recommendations" -> get_recommendations(call[2])
      [] call[1] = "compare_with_average" -> compare_with_average(call[2], call[3])
      [] call[1] = "calculate_price_range" -> calculate_price_range(call[2], call[3], call[4])
      [] call[1] = "calculate_depreciation" ->
             calculate_depreciation(call[2], call[3], call[4], call[5], call[6])
      [] call[1] = "calculate_loan_payment" ->
             calculate_loan_payment(call[2], call[3], call[4], call[5])
      [] call[1] = "mean" -> mean(call[2])
      [] call[1] = "median" -> median(call[2])
      [] call[1] = "mode" -> mode(call[2])
      [] call[1] = "variance" -> variance(call[2])
      [] call[1] = "std_dev" -> std_dev(call[2])
      [] call[1] = "min_value" -> min_value(call[2])
      [] call[1] = "max_value" -> max_value(call[2])
      [] call[1] = "coefficient_of_variation" -> coefficient_of_variation(call[2])
      [] call[1] = "skewness" -> skewness(call[2])
      [] call[1] = "percentile" -> percentile(call[2], call[3])
      [] call[1] = "CarStatistics" -> CarStatistics(call[2], call[3])
      [] call[1] = "get_price_distribution" -> get_price_distribution(call[2], call[3])
      [] call[1] = "get_year_distribution" -> get_year_distribution(call[2])
      [] call[1] = "get_brand_distribution" -> get_brand_distribution(call[2])
      [] call[1] = "get_status_distribution" -> get_status_distribution(call[2])
      [] call[1] = "get_color_distribution" -> get_color_distribution(call[2])
      [] call[1] = "get_condition_distribution" -> get_condition_distribution(call[2])
      [] call[1] = "get_price_analysis_by_age" -> get_price_analysis_by_age(call[2], call[3])
      [] call[1] = "get_brand_comparison" ->
             get_brand_comparison(call[2], call[3], call[4], call[5])
      [] call[1] = "calculate_correlation" -> calculate_correlation(call[2], call[3])
      [] call[1] = "TrendAnalyzer" -> TrendAnalyzer(call[2])
      [] call[1] = "growth_rate" -> growth_rate(call[2])
      [] call[1] = "linear_trend" -> linear_trend(call[2])
      [] call[1] = "moving_average" -> moving_average(call[2], call[3])
      [] call[1] = "forecast" -> forecast(call[2], call[3])
      [] call[1] = "get_price_statistics" -> get_price_statistics(call[2])
      [] call[1] = "get_top_brands" -> get_top_brands(call[2], call[3])
      [] call[1] = "get_depreciation_analysis" -> get_depreciation_analysis(call[2])
      [] call[1] = "create_transaction" -> create_transaction(call[2], call[3])
      [] call[1] = "complete_transaction" -> complete_transaction(call[2], call[3])
      [] call[1] = "cancel_transaction" -> cancel_transaction(call[2], call[3])

----------------------------------------------------------------------------
(* The calls of a TrendAnalyzer *)

\* linear_trend()
LinearTrend ==
    /\ calc.exists
    /\ calc.class = "TrendAnalyzer"
    /\ \E returned \in Call(<<"linear_trend", calc>>) :
           ret' = [op |-> "linear_trend", value |-> returned]
    /\ UNCHANGED <<now_year, ctor, calc, result, args>>

\* moving_average(window)
MovingAverage(window) ==
    /\ calc.exists
    /\ calc.class = "TrendAnalyzer"
    /\ ret' = [op |-> "moving_average", window |-> window,
               value |-> Call(<<"moving_average", calc, window>>)]
    /\ UNCHANGED <<now_year, ctor, calc, result, args>>

\* forecast(days_ahead)
Forecast(days_ahead) ==
    /\ calc.exists
    /\ calc.class = "TrendAnalyzer"
    /\ ret' = [op |-> "forecast", days_ahead |-> days_ahead,
               value |-> Call(<<"forecast", calc, days_ahead>>)]
    /\ UNCHANGED <<now_year, ctor, calc, result, args>>

Windows == {1, 2, 3, 4}
DaysAhead == {0, 1, 2, 3}

\* The series of <<day, <<n, d>>>>, the value being the float n / d: of no
\* point to four points, rising, falling and level, some days apart, out of
\* order, and with several points on one day.
TrendPoints ==
    {<<>>,
     << <<1, <<10, 1>>>> >>,
     << <<1, <<10, 1>>>>, <<1, <<20, 1>>>> >>,
     << <<5, <<1, 10>>>>, <<5, <<3, 1>>>>, <<5, <<2, 1>>>> >>,
     << <<1, <<10, 1>>>>, <<2, <<20, 1>>>> >>,
     << <<3, <<10, 1>>>>, <<1, <<20, 1>>>> >>,
     << <<1, <<7, 1>>>>, <<4, <<7, 1>>>> >>,
     << <<1, <<1, 10>>>>, <<2, <<1, 10>>>>, <<3, <<1, 10>>>> >>,
     << <<1, <<10, 1>>>>, <<2, <<1, 1>>>>, <<4, <<1, 10>>>> >>,
     << <<2, <<3, 1>>>>, <<1, <<1, 1>>>>, <<7, <<2, 1>>>> >>,
     << <<1, <<1, 3>>>>, <<2, <<2, 3>>>>, <<4, <<7, 3>>>> >>,
     << <<1, <<0, 1>>>>, <<1, <<5, 1>>>>, <<3, <<1, 1>>>>, <<2, <<1, 10>>>> >>,
     << <<4, <<30, 1>>>>, <<3, <<20, 1>>>>, <<2, <<10, 1>>>>, <<1, <<1, 7>>>> >>}
TrendSeries ==
    {[i \in DOMAIN points |->
         <<points[i][1], Dec(points[i][2][1], points[i][2][2])>>] :
        points \in TrendPoints}

TrendInit ==
    /\ now_year = StartYear
    /\ ctor = NoCall
    /\ calc = NoCalc
    /\ result = NoCall
    /\ ret = NoCall
    /\ args \in {[op |-> "TrendAnalyzer", data |-> data] : data \in TrendSeries}

TrendNext ==
    \/ ConstructAnalyzer
    \/ LinearTrend
    \/ \E window \in Windows : MovingAverage(window)
    \/ \E days_ahead \in DaysAhead : Forecast(days_ahead)
    \/ GrowthRate

TrendSpec == TrendInit /\ [][TrendNext]_vars

----------------------------------------------------------------------------
(* The analyses of a CarStatistics *)

\* get_price_statistics()
GetPriceStatistics ==
    /\ calc.exists
    /\ calc.class = "CarStatistics"
    /\ ret' = [op |-> "get_price_statistics",
               value |-> Call(<<"get_price_statistics", calc>>)]
    /\ UNCHANGED <<now_year, ctor, calc, result, args>>

\* get_top_brands(limit)
GetTopBrands(limit) ==
    /\ calc.exists
    /\ calc.class = "CarStatistics"
    /\ ret' = [op |-> "get_top_brands", limit |-> limit,
               value |-> Call(<<"get_top_brands", calc, limit>>)]
    /\ UNCHANGED <<now_year, ctor, calc, result, args>>

\* get_depreciation_analysis()
GetDepreciationAnalysis ==
    /\ calc.exists
    /\ calc.class = "CarStatistics"
    /\ ret' = [op |-> "get_depreciation_analysis",
               value |-> Call(<<"get_depreciation_analysis", calc>>)]
    /\ UNCHANGED <<now_year, ctor, calc, result, args>>

Limits == {-1, 0, 1, 2, 3, 5}
CountedDistributions == {"get_brand_distribution", "get_color_distribution"}

\* The lists of the analyses: of one car, of cars of one year, of brands met
\* once, twice and three times in every order of their counts.
AnalysisCarLists ==
    {[i \in DOMAIN names |-> Cars[names[i]]] :
        names \in {<<"bmw">>, <<"toyota">>, <<"lada">>, <<"TOYOTA", "TOYOTA">>,
                   <<"toyota", "TOYOTA">>, <<"bmw4", "toyota", "bmw4">>,
                   <<"lada", "bmw", "TOYOTA">>,
                   <<"lada", "toyota", "toyota", "bmw">>,
                   <<"bmw", "bmw4", "lada", "TOYOTA">>,
                   <<"TOYOTA", "lada", "TOYOTA", "lada">>,
                   <<"lada", "bmw", "lada", "bmw", "bmw">>}}

AnalysisInit ==
    /\ now_year = StartYear
    /\ ctor = NoCall
    /\ calc = NoCalc
    /\ result = NoCall
    /\ ret = NoCall
    /\ args \in {[op |-> "CarStatistics", cars |-> cars] : cars \in AnalysisCarLists}

AnalysisNext ==
    \/ ConstructStatistics
    \/ GetPriceStatistics
    \/ \E limit \in Limits : GetTopBrands(limit)
    \/ GetDepreciationAnalysis
    \/ \E method \in CountedDistributions : CallStatistics(method)

AnalysisSpec == AnalysisInit /\ [][AnalysisNext]_vars

----------------------------------------------------------------------------
(* The transactions of a Dealership *)

MaxTransactions == 3
CarPlaces == {1, 2}
CarStatuses == {"AVAILABLE", "RESERVED", "SOLD", "UNDER_REPAIR"}

\* Dealership(name, cars=...) with the cars of args
ConstructDealership ==
    /\ args.op = "Dealership"
    /\ ctor = NoCall
    /\ ctor' = [op |-> "Dealership", at_year |-> now_year, raised |-> "none"]
    /\ calc' = [exists |-> TRUE, class |-> "Dealership",
                cars |-> [car \in CarPlaces |-> [status |-> args.statuses[car]]],
                transactions |-> <<>>]
    /\ UNCHANGED <<now_year, result, ret, args>>

\* create_transaction(car, ...)
CreateTransaction(car) ==
    /\ calc.exists
    /\ calc.class = "Dealership"
    /\ Len(calc.transactions) < MaxTransactions
    /\ LET done == Call(<<"create_transaction", calc, car>>)
       IN  /\ calc' = done.self
           /\ ret' = [op |-> "create_transaction", car |-> car,
                      raised |-> done.raised]
    /\ UNCHANGED <<now_year, ctor, result, args>>

\* complete_transaction(transaction_id)
CompleteTransaction(transaction_id) ==
    /\ calc.exists
    /\ calc.class = "Dealership"
    /\ LET done == Call(<<"complete_transaction", calc, transaction_id>>)
       IN  /\ calc' = done.self
           /\ ret' = [op |-> "complete_transaction",
                      transaction_id |-> transaction_id, value |-> done.value]
    /\ UNCHANGED <<now_year, ctor, result, args>>

\* cancel_transaction(transaction_id)
CancelTransaction(transaction_id) ==
    /\ calc.exists
    /\ calc.class = "Dealership"
    /\ LET done == Call(<<"cancel_transaction", calc, transaction_id>>)
       IN  /\ calc' = done.self
           /\ ret' = [op |-> "cancel_transaction",
                      transaction_id |-> transaction_id, value |-> done.value]
    /\ UNCHANGED <<now_year, ctor, result, args>>

DealInit ==
    /\ now_year = StartYear
    /\ ctor = NoCall
    /\ calc = NoCalc
    /\ result = NoCall
    /\ ret = NoCall
    /\ args \in [op : {"Dealership"}, statuses : [CarPlaces -> CarStatuses]]

DealNext ==
    \/ ConstructDealership
    \/ \E car \in CarPlaces : CreateTransaction(car)
    \/ \E transaction_id \in 1..MaxTransactions :
           \/ CompleteTransaction(transaction_id)
           \/ CancelTransaction(transaction_id)

DealSpec == DealInit /\ [][DealNext]_vars

----------------------------------------------------------------------------
(* Properties *)

MarketPriceReturned == ret.op = "calculate_market_price"

\* C1: for every calculator that was constructed successfully, the result of
\* calculate_market_price has min_price <= market_price <= max_price and
\* market_price >= 0.
C1_MarketPriceWithinRange ==
    MarketPriceReturned =>
        /\ ret.value.min_price <= ret.value.market_price
        /\ ret.value.market_price <= ret.value.max_price
        /\ ret.value.market_price >= 0

C1_Witness ==
    /\ MarketPriceReturned
    /\ 0 < ret.value.min_price
    /\ ret.value.min_price < ret.value.market_price
    /\ ret.value.market_price < ret.value.max_price

\* n is the multiple of 1000 nearest to the float x >= 0, and the even
\* multiple when x lies halfway between two of them.
NearestThousand(x, n) ==
    LET s    == IF x.e < 0 THEN -x.e ELSE 0
        xs   == BShl(x.m, x.e + s)
        ns   == BShl(BFromInt(n), s)
        dist == IF BCmp(ns, xs) >= 0 THEN BSub(ns, xs) ELSE BSub(xs, ns)
        half == BShl(BFromInt(500), s)
    IN  /\ ~x.neg
        /\ n >= 0
        /\ n % 1000 = 0
        /\ BCmp(dist, half) <= 0
        /\ BCmp(dist, half) = 0 => (n \div 1000) % 2 = 0

\* The product base_price * age_factor * mileage_factor * condition_factor of
\* the factors a result reports.
ReportedProduct(v) ==
    DMul(DMul(DMul(DFromInt(v.base_price), Factor(v.factors.age)),
              Factor(v.factors.mileage)),
         Factor(v.factors.condition))

\* C2: market_price is base_price * age_factor * mileage_factor *
\* condition_factor rounded to the nearest 1000, min_price and max_price are
\* market_price * 0.9 and market_price * 1.1 rounded to the nearest 1000, all
\* three with the half-to-even tie-break; and the car (1500000, 2020, 45000,
\* 'good') priced in 2024 gets market_price 1452000.
C2_RoundedToNearestThousand ==
    MarketPriceReturned =>
        /\ NearestThousand(ReportedProduct(ret.value), ret.value.market_price)
        /\ NearestThousand(DMul(DFromInt(ret.value.market_price), D_0_9),
                           ret.value.min_price)
        /\ NearestThousand(DMul(DFromInt(ret.value.market_price), D_1_1),
                           ret.value.max_price)
        /\ (/\ calc.base_price = 1500000 /\ calc.year = 2020
            /\ calc.mileage = 45000 /\ calc.condition = "good"
            /\ calc.current_year = 2024) => ret.value.market_price = 1452000

C2_Witness ==
    /\ MarketPriceReturned
    /\ calc.base_price = 1500000 /\ calc.year = 2020 /\ calc.mileage = 45000
    /\ calc.condition = "good" /\ calc.current_year = 2024
    /\ ret.value.market_price = 1452000
    /\ ret.value.min_price = 1307000
    /\ ret.value.max_price = 1597000

\* C3: the constructor raises, and creates no object, exactly when
\* base_price <= 0, year < 1900, year > current_year + 1, mileage < 0 or the
\* condition is none of the five keys; accepted arguments are stored as
\* given, never replaced by a valid value.
C3_ConstructorRejectsExactlyInvalid ==
    ctor.op = "__init__" =>
        LET invalid == \/ ctor.base_price <= 0
                       \/ ctor.year < 1900
                       \/ ctor.year > ctor.at_year + 1
                       \/ ctor.mileage < 0
                       \/ ctor.condition \notin
                              {"excellent", "good", "average", "poor", "damaged"}
        IN  /\ (ctor.raised # "none") <=> invalid
            /\ invalid => calc = NoCalc
            /\ ~invalid =>
                   /\ calc.exists
                   /\ calc.base_price = ctor.base_price
                   /\ calc.year = ctor.year
                   /\ calc.mileage = ctor.mileage
                   /\ calc.condition = ctor.condition
                   /\ calc.current_year = ctor.at_year

C3_Witness ==
    /\ ctor.op = "__init__"
    /\ ctor.base_price > 0 /\ ctor.mileage >= 0
    /\ ctor.year = ctor.at_year + 2
    /\ ctor.raised = "year"
    /\ calc = NoCalc

\* C4: the depreciation reported by calculate_market_price is 0 when
\* market_price >= base_price, and otherwise 100 * (1 - market_price /
\* base_price) rounded to one decimal.
C4_DepreciationPercent ==
    MarketPriceReturned =>
        LET price == ret.value.market_price
            base  == ret.value.base_price
        IN  IF price >= base THEN ret.value.depreciation = 0
            ELSE Abs(ret.value.depreciation * base - 1000 * (base - price))
                     <= base \div 2

C4_Witness ==
    /\ MarketPriceReturned
    /\ ret.value.base_price = 1500000
    /\ ret.value.market_price = 1452000
    /\ ret.value.depreciation = 32

C4_WitnessAboveBase ==
    /\ MarketPriceReturned
    /\ ret.value.market_price > ret.value.base_price
    /\ ret.value.depreciation = 0

C6_AgeFactorNonIncreasing ==
    ret.op = "calculate_age_factor" =>
        /\ ret.value >= 50
        /\ calc.year > MinYear =>
               calculate_age_factor([calc EXCEPT !.year = @ - 1]) <= ret.value

C6_Witness ==
    /\ ret.op = "calculate_age_factor"
    /\ calc.year = MinYear
    /\ ret.value = 50

\* C7: get_recommendations returns exactly one of five actions, decided by
\* market_price against base_price: above 1.1 * base_price sell urgently;
\* else above base_price sell; else below 0.7 * base_price urgent sale; else
\* below 0.85 * base_price sell with discount; otherwise hold.  The five
\* bands are disjoint and cover every pair.
C7_RecommendationBands ==
    ret.op = "get_recommendations" =>
        LET price == ret.value.price
            base  == calc.base_price
            band  == [sell_urgently      |-> 10 * price > 11 * base,
                      sell               |-> price > base /\ 10 * price <= 11 * base,
                      urgent_sale        |-> 10 * price < 7 * base,
                      sell_with_discount |-> /\ 10 * price >= 7 * base
                                             /\ 100 * price < 85 * base,
                      hold               |-> /\ 100 * price >= 85 * base
                                             /\ price <= base]
        IN  /\ ret.value.action \in DOMAIN band
            /\ band[ret.value.action]
            /\ Cardinality({a \in DOMAIN band : band[a]}) = 1
            /\ result # NoCall => price = result.value.market_price

C7_Witness ==
    /\ ret.op = "get_recommendations"
    /\ ret.value.action = "sell_with_discount"
    /\ 10 * ret.value.price >= 7 * calc.base_price

\* C8: once constructed, the calculator's base_price, year, mileage,
\* condition and current_year are changed by no call of
\* calculate_market_price, get_recommendations, compare_with_average or
\* calculate_price_range, and every call of calculate_market_price returns
\* what the first one returned.
C8_CallsLeaveCalculatorUnchanged ==
    [][/\ calc.exists => calc' = calc
       /\ ret'.op = "calculate_market_price" => ret'.value = result'.value]_vars

C8_Witness ==
    /\ ret.op = "calculate_market_price"
    /\ result # NoCall
    /\ ret.value = result.value
    /\ now_year > calc.current_year

DepreciationReturned ==
    /\ ret.op = "calculate_depreciation"
    /\ ret.raised = "none"

\* purchase_price * annual_rate * years_owned and the value that is left of
\* the purchase price, floored at a tenth of it, both in thousandths
StraightLine == args.purchase_price * args.annual_rate * ret.value.years_owned
ValueLeft ==
    IF StraightLine > 900 * args.purchase_price
    THEN 100 * args.purchase_price
    ELSE 1000 * args.purchase_price - StraightLine

\* C9 as stated: current_value is max(purchase_price - purchase_price *
\* annual_rate * years_owned, 0.1 * purchase_price) and total_depreciation is
\* purchase_price - current_value.
C9_AsStated ==
    DepreciationReturned =>
        /\ 10 * ret.value.current_value = ValueLeft
        /\ ret.value.total_depreciation =
               100 * args.purchase_price - ret.value.current_value

\* C9: for valid input the reported current_value is max(purchase_price -
\* purchase_price * annual_rate * years_owned, 0.1 * purchase_price) rounded
\* to two decimals, the reported total_depreciation is the purchase price less
\* that maximum, rounded to two decimals, and past the floor they are exactly
\* 0.1 and 0.9 of the purchase price.
C9_DepreciationFloor ==
    DepreciationReturned =>
        /\ Abs(10 * ret.value.current_value - ValueLeft) <= 5
        /\ Abs(10 * ret.value.total_depreciation
               - (1000 * args.purchase_price - ValueLeft)) <= 5
        /\ StraightLine > 900 * args.purchase_price =>
               /\ ret.value.current_value = 10 * args.purchase_price
               /\ ret.value.total_depreciation = 90 * args.purchase_price

C9_Witness ==
    /\ DepreciationReturned
    /\ StraightLine > 900 * args.purchase_price
    /\ ret.value.current_value = 10 * args.purchase_price
    /\ ret.value.total_depreciation = 90 * args.purchase_price

\* C10: a down payment of the whole price or more gets loan_amount 0,
\* monthly_payment 0, total_payment equal to the down payment, total_interest
\* 0 and the message, and no annuity is computed.
C10_NoLoanNeeded ==
    (ret.op = "calculate_loan_payment" /\ args.down_payment >= args.car_price) =>
        /\ ret.raised = "none"
        /\ ret.value = [loan_amount     |-> 0,
                        monthly_payment |-> 0,
                        total_payment   |-> 100 * args.down_payment,
                        total_interest  |-> 0,
                        message         |-> "no_loan_needed"]

C10_Witness ==
    /\ ret.op = "calculate_loan_payment"
    /\ args.down_payment = args.car_price
    /\ args.car_price > 0
    /\ args.interest_rate = 0
    /\ ret.raised = "none"
    /\ ret.value.monthly_payment = 0
    /\ ret.value.total_payment = 100 * args.down_payment

\* C18: for every year the constructor accepts (MinYear up to the year after
\* the current one), calculate_age_factor returns a value between 0.5 and 1.0.
C18_AgeFactorWithinRange ==
    ret.op = "calculate_age_factor" => ret.value >= 50 /\ ret.value <= 100

IsZero(v) == "m" \in DOMAIN v /\ v.m = <<>>

\* C12: the helpers of StatisticsCalculator raise nothing on a degenerate
\* series: mean, median, min_value, max_value, percentile and
\* coefficient_of_variation return 0 on an empty series, mode returns None on
\* an empty series, variance and std_dev return 0 on fewer than 2 values and
\* skewness returns 0 on fewer than 3 values.
C12_DegenerateSeries ==
    /\ ret.op \in {"mean", "median", "min_value", "max_value", "percentile",
                   "coefficient_of_variation"} /\ args.values = <<>>
           => IsZero(ret.value)
    /\ ret.op = "mode" /\ args.values = <<>> => ret.value = None
    /\ ret.op \in {"variance", "std_dev"} /\ Len(args.values) < 2
           => IsZero(ret.value)
    /\ ret.op = "skewness" /\ Len(args.values) < 3 => IsZero(ret.value)

C12_Witness ==
    /\ ret.op = "variance"
    /\ Len(args.values) = 1
    /\ ~IsZero(args.values[1])
    /\ IsZero(ret.value)

\* The value is the least (sign = 1) or the greatest (sign = -1) of the series.
IsExtreme(value, values, sign) ==
    /\ \E i \in 1..Len(values) : DCmp(values[i], value) = 0
    /\ \A i \in 1..Len(values) : sign * DCmp(value, values[i]) <= 0

\* C14 as stated: on a non-empty series, percentile at 0 is the minimum, at
\* 100 the maximum, and at 50 what median returns, whatever the length.
C14_AsStated ==
    ret.op = "percentile" /\ args.values # <<>> =>
        /\ ret.percent = 0 => IsExtreme(ret.value, args.values, 1)
        /\ ret.percent = 100 => IsExtreme(ret.value, args.values, -1)
        /\ ret.percent = 50 => DCmp(ret.value, median(args.values)) = 0

\* C14: on a non-empty series, percentile at 0 is the minimum, at 100 the
\* maximum, and at 50 what median returns when the length is odd, or when
\* the length is even and the values are integers.
C14_PercentileEnds ==
    ret.op = "percentile" /\ args.values # <<>> =>
        /\ ret.percent = 0 => IsExtreme(ret.value, args.values, 1)
        /\ ret.percent = 100 => IsExtreme(ret.value, args.values, -1)
        /\ /\ ret.percent = 50
           /\ \/ Len(args.values) % 2 = 1
              \/ \A i \in 1..Len(args.values) : DIsInteger(args.values[i])
           => DCmp(ret.value, median(args.values)) = 0

C14_Witness ==
    /\ ret.op = "percentile"
    /\ ret.percent = 50
    /\ Len(args.values) = 2
    /\ DCmp(args.values[1], args.values[2]) > 0
    /\ \A i \in 1..2 : DIsInteger(args.values[i])
    /\ DCmp(ret.value, median(args.values)) = 0

\* C11: CarStatistics over an empty list of cars raises StatisticsError and
\* makes no object; over a list that is not empty it raises nothing and the
\* object holds the list.
C11_EmptyCollectionRejected ==
    ctor.op = "CarStatistics" =>
        /\ args.cars = <<>> => ctor.raised = "StatisticsError" /\ calc = NoCalc
        /\ args.cars # <<>> =>
               /\ ctor.raised = "none"
               /\ calc.exists
               /\ calc.cars = args.cars

C11_Witness ==
    /\ ctor.op = "CarStatistics"
    /\ args.cars = <<>>
    /\ ctor.raised = "StatisticsError"

C11_WitnessAccepted ==
    /\ ctor.op = "CarStatistics"
    /\ Len(args.cars) = 1
    /\ calc.exists

\* The sum of the counts of a distribution.
RECURSIVE SumOfCounts(_)
SumOfCounts(distribution) ==
    IF distribution = <<>> THEN 0
    ELSE distribution[1][2] + SumOfCounts(Tail(distribution))

\* C13: the counts of every distribution (by price with any number of bins
\* from 1, by year, brand, status, color and condition) sum to the number of
\* cars of the collection.
C13_CountsSumToCars ==
    ret.op \in Distributions \cup {"get_price_distribution"} =>
        SumOfCounts(ret.value) = Len(args.cars)

\* C19: get_price_analysis_by_age puts every car of the collection into
\* exactly one of the five bands new (age 0-1), young (2-3), medium (4-6),
\* old (7-10) and vintage (11 and more), so that the counts of the bands it
\* returns sum to the number of cars.
C19_EveryCarInOneBand ==
    ret.op = "get_price_analysis_by_age" =>
        LET band(age) == IF age < 0 THEN "none"
                         ELSE IF age <= 1 THEN "new"
                         ELSE IF age <= 3 THEN "young"
                         ELSE IF age <= 6 THEN "medium"
                         ELSE IF age <= 10 THEN "old"
                         ELSE "vintage"
            cars_of(name) == {i \in 1..Len(calc.cars) :
                                  band(ret.at_year - calc.cars[i].year) = name}
            count(name) == DictGet(ret.value, name, [count |-> 0]).count
        IN  /\ \A name \in {"new", "young", "medium", "old", "vintage"} :
                   count(name) = Cardinality(cars_of(name))
            /\ count("new") + count("young") + count("medium") + count("old")
                   + count("vintage") = Len(calc.cars)

\* C16: get_brand_comparison(brand1, brand2) takes as the cars of a brand
\* those whose brand equals the name when case is ignored, raises
\* StatisticsError when either brand has no car, and otherwise returns an
\* entry for brand1, an entry for brand2 and a comparison whose
\* count_difference is the number of cars of brand1 minus that of brand2.
C16_BrandComparison ==
    ret.op = "get_brand_comparison" =>
        LET size(brand) == Cardinality({i \in 1..Len(calc.cars) :
                                           Lower[calc.cars[i].brand] = Lower[brand]})
        IN  IF size(ret.brand1) = 0 \/ size(ret.brand2) = 0
            THEN ret.outcome = Raised("StatisticsError")
            ELSE /\ ret.outcome.raised = "none"
                 /\ DictKeys(ret.outcome.value)
                        = {ret.brand1, ret.brand2, "comparison"}
                 /\ DictGet(ret.outcome.value, ret.brand1, None).count
                        = size(ret.brand1)
                 /\ DictGet(ret.outcome.value, ret.brand2, None).count
                        = size(ret.brand2)
                 /\ DictGet(ret.outcome.value, "comparison", None).count_difference
                        = size(ret.brand1) - size(ret.brand2)

C16_Witness ==
    /\ ret.op = "get_brand_comparison"
    /\ ret.brand1 = "toyota"
    /\ ret.brand2 = "BMW"
    /\ ret.outcome.raised = "none"
    /\ DictGet(ret.outcome.value, "comparison", None).count_difference = 1

C16_WitnessNotFound ==
    /\ ret.op = "get_brand_comparison"
    /\ ret.brand1 = "toyota"
    /\ ret.brand2 = "Lada"
    /\ ret.outcome = Raised("StatisticsError")

\* C17: calculate_correlation divides by zero nowhere: it returns an empty
\* mapping for fewer than 2 cars, and for 2 cars or more every coefficient
\* of which one of the two series is constant is 0.
C17_ConstantSeriesGiveZero ==
    ret.op = "calculate_correlation" =>
        LET cars == args.cars
            same_price == \A i \in 1..Len(cars) : DCmp(cars[i].price, cars[1].price) = 0
            same_mileage == \A i \in 1..Len(cars) :
                                DCmp(cars[i].mileage, cars[1].mileage) = 0
            same_year == \A i \in 1..Len(cars) : cars[i].year = cars[1].year
            is_zero(name) == IsZero(DictGet(ret.value, name, None))
        IN  IF Len(cars) < 2 THEN ret.value = <<>>
            ELSE /\ same_price \/ same_year => is_zero("price_year") /\ is_zero("price_age")
                 /\ same_price \/ same_mileage => is_zero("price_mileage")
                 /\ same_year \/ same_mileage =>
                        is_zero("year_mileage") /\ is_zero("age_mileage")

\* C15: no call changes the list it was given: the caller's list of cars,
\* which the CarStatistics object holds, keeps its elements, their order and
\* their fields, and the list of points passed to TrendAnalyzer keeps its
\* order, the analyzer sorting a copy.
C15_InputsUnchanged ==
    [][/\ args.op = "CarStatistics" =>
              /\ args'.cars = args.cars
              /\ calc.exists => calc'.cars = args.cars
       /\ args.op = "TrendAnalyzer" => args'.data = args.data]_vars

C15_Witness ==
    /\ args.op = "TrendAnalyzer"
    /\ calc.exists
    /\ calc.data # args.data
    /\ ret.op = "growth_rate"

\* C20: on a series of 2 values or more, the average growth growth_rate
\* returns is the mean of the step changes (v[i] - v[i-1]) / v[i-1] * 100
\* over the steps whose v[i-1] is not 0, the other steps not counting.
C20_AverageOfCountedSteps ==
    ret.op = "growth_rate" /\ Len(calc.values) >= 2 =>
        LET counted == {i \in 1..(Len(calc.values) - 1) : ~IsZero(calc.values[i])}
            steps   == [i \in 1..(Len(calc.values) - 1) |->
                           IF i \in counted THEN StepGrowth(calc.values, i)
                           ELSE DZero]
        IN  counted # {} =>
                /\ "m" \in DOMAIN ret.value.average_growth
                /\ DCmp(ret.value.average_growth,
                        DDiv(Sum(steps), DFromInt(Cardinality(counted)))) = 0

\* C27: rounding to the nearest 1000 as calculate_market_price does it is
\* idempotent: market_price, min_price and max_price are multiples of 1000
\* and rounding any of them again returns it.
C27_RoundingIdempotent ==
    MarketPriceReturned =>
        \A price \in {ret.value.market_price, ret.value.min_price,
                      ret.value.max_price} :
            /\ price % 1000 = 0
            /\ RoundTo1000(DFromInt(price)) = price

C27_Witness ==
    /\ MarketPriceReturned
    /\ ret.value.market_price > 0
    /\ ret.value.min_price < ret.value.market_price
    /\ ret.value.market_price < ret.value.max_price
    /\ RoundTo1000(DFromInt(ret.value.max_price)) = ret.value.max_price

\* C30: calculate_loan_payment returns a result for every call with
\* car_price - down_payment > 0, interest_rate >= 0 and loan_term_months >= 1,
\* and total_payment is monthly_payment * loan_term_months + down_payment up
\* to the rounding of the two amounts to 2 decimals.
C30_LoanPaymentReturned ==
    (/\ ret.op = "calculate_loan_payment"
     /\ args.car_price - args.down_payment > 0
     /\ args.interest_rate >= 0
     /\ args.loan_term_months >= 1) =>
        /\ ret.raised = "none"
        /\ 2 * Abs(ret.value.total_payment
                   - (ret.value.monthly_payment * args.loan_term_months
                      + 100 * args.down_payment))
               <= args.loan_term_months + 1

\* The points of the analyzer all have the day offset of the first.
SameDayOffset == \A i \in DOMAIN calc.dates : calc.dates[i] = calc.dates[1]

\* C21: linear_trend raises nothing: with fewer than 2 points, or with all
\* points at the same day offset, it returns slope, intercept and r_squared 0
\* and a label that is 'stable' or absent; otherwise the label is 'rising'
\* for a slope > 0, 'falling' for a slope < 0 and 'stable' for a slope of 0.
C21_LinearTrendGuarded ==
    ret.op = "linear_trend" =>
        IF Len(calc.dates) < 2 \/ SameDayOffset
        THEN /\ IsZero(ret.value.slope)
             /\ IsZero(ret.value.intercept)
             /\ IsZero(ret.value.r_squared)
             /\ "trend" \in DOMAIN ret.value => ret.value.trend = "stable"
        ELSE /\ "trend" \in DOMAIN ret.value
             /\ DCmp(ret.value.slope, DZero) > 0 => ret.value.trend = "rising"
             /\ DCmp(ret.value.slope, DZero) < 0 => ret.value.trend = "falling"
             /\ DCmp(ret.value.slope, DZero) = 0 => ret.value.trend = "stable"

C21_Witness ==
    /\ ret.op = "linear_trend"
    /\ Len(calc.dates) >= 2
    /\ SameDayOffset
    /\ IsZero(ret.value.slope)
    /\ "trend" \notin DOMAIN ret.value

C21_WitnessStable ==
    /\ ret.op = "linear_trend"
    /\ ~SameDayOffset
    /\ IsZero(ret.value.slope)
    /\ ~IsZero(ret.value.intercept)
    /\ ret.value.trend = "stable"

\* C22: moving_average(window), window >= 1, returns the values in the order
\* of their dates unchanged when there are fewer than window of them, and
\* otherwise len - window + 1 values, the i-th being the mean of the window
\* values from the i-th on.
C22_MovingAverage ==
    (ret.op = "moving_average" /\ ret.window >= 1) =>
        /\ \A i, j \in DOMAIN calc.dates : i < j => calc.dates[i] <= calc.dates[j]
        /\ IF Len(calc.values) < ret.window
           THEN ret.value = calc.values
           ELSE /\ Len(ret.value) = Len(calc.values) - ret.window + 1
                /\ \A i \in DOMAIN ret.value :
                       DCmp(ret.value[i],
                            mean(SubSeq(calc.values, i, i + ret.window - 1))) = 0

C22_Witness ==
    /\ ret.op = "moving_average"
    /\ ret.window = 2
    /\ Len(calc.values) = 3
    /\ Len(ret.value) = 2
    /\ DCmp(ret.value[1], ret.value[2]) # 0
    /\ args.data # calc.data

\* C23: forecast(days_ahead) on a series that is not empty returns days_ahead
\* points, the i-th dated i days after the last date with the value
\* max(0, slope * days from the first date + intercept) of linear_trend,
\* which is never negative; on an empty series it returns an empty list.
C23_Forecast ==
    ret.op = "forecast" =>
        IF calc.dates = <<>> THEN ret.value = <<>>
        ELSE /\ Len(ret.value) = ret.days_ahead
             /\ \A i \in 1..ret.days_ahead :
                    LET last_date == calc.dates[Len(calc.dates)]
                        days      == last_date + i - calc.dates[1]
                    IN  /\ ret.value[i][1] = last_date + i
                        /\ DCmp(ret.value[i][2], DZero) >= 0
                        /\ \E trend \in linear_trend(calc) :
                               LET value == DAdd(DMul(trend.slope, DFromInt(days)),
                                                 trend.intercept)
                               IN  DCmp(ret.value[i][2],
                                        IF DCmp(value, DZero) > 0 THEN value
                                        ELSE DZero) = 0

C23_Witness ==
    /\ ret.op = "forecast"
    /\ ret.days_ahead = 3
    /\ Len(ret.value) = 3
    /\ IsZero(ret.value[3][2])
    /\ \E trend \in linear_trend(calc) :
           /\ DCmp(trend.slope, DZero) < 0
           /\ DCmp(trend.intercept, DZero) > 0

\* The distinct years of the cars of the collection, and the same in
\* ascending order.
DistinctYears == {calc.cars[i].year : i \in DOMAIN calc.cars}
YearsAscending ==
    [r \in 1..Cardinality(DistinctYears) |->
        CHOOSE y \in DistinctYears :
            Cardinality({z \in DistinctYears : z < y}) = r - 1]

\* The mean price of the cars of a year.
MeanPriceOfYear(year) ==
    LET of_year(car) == car.year = year
    IN  mean(Map(SelectSeq(calc.cars, of_year), PriceOf))

\* C24: get_depreciation_analysis returns an empty result exactly when the
\* collection has fewer than 2 distinct years; otherwise, avg being the mean
\* price per distinct year in ascending order of the years,
\* avg_annual_depreciation is the mean of (avg[i-1] - avg[i]) / avg[i-1] * 100
\* over the adjacent pairs and total_depreciation is
\* (avg[oldest] - avg[newest]) / avg[oldest] * 100.
C24_DepreciationAnalysis ==
    ret.op = "get_depreciation_analysis" =>
        LET n      == Cardinality(DistinctYears)
            avg(i) == MeanPriceOfYear(YearsAscending[i])
            rates  == [i \in 1..(n - 1) |->
                          DMul(DDiv(DSub(avg(i), avg(i + 1)), avg(i)), D_100)]
        IN  IF n < 2 THEN ret.value = <<>>
            ELSE /\ ret.value # <<>>
                 /\ DCmp(DictGet(ret.value, "avg_annual_depreciation", DZero),
                         mean(rates)) = 0
                 /\ DCmp(DictGet(ret.value, "total_depreciation", DZero),
                         DMul(DDiv(DSub(avg(1), avg(n)), avg(1)), D_100)) = 0

C24_Witness ==
    /\ ret.op = "get_depreciation_analysis"
    /\ Len(calc.cars) = 4
    /\ Cardinality(DistinctYears) = 3
    /\ ret.value # <<>>
    /\ ~IsZero(DictGet(ret.value, "avg_annual_depreciation", DZero))
    /\ DCmp(DictGet(ret.value, "avg_annual_depreciation", DZero),
            DictGet(ret.value, "total_depreciation", DZero)) # 0

C24_WitnessOneYear ==
    /\ ret.op = "get_depreciation_analysis"
    /\ Len(calc.cars) = 2
    /\ Cardinality(DistinctYears) = 1
    /\ ret.value = <<>>

\* The brands of the collection and the number of cars of a brand.
BrandsMet == {calc.cars[i].brand : i \in DOMAIN calc.cars}
BrandCount(brand) == Cardinality({i \in DOMAIN calc.cars : calc.cars[i].brand = brand})

\* C25: get_top_brands(limit), limit >= 0, returns min(limit, number of
\* distinct brands) entries, one per brand, in non-increasing order of count,
\* each with the number of cars of its brand as count, and no brand left out
\* has a larger count than a brand included; get_brand_distribution and
\* get_color_distribution list their categories in non-increasing order of
\* count.
C25_TopBrands ==
    /\ (ret.op = "get_top_brands" /\ ret.limit >= 0) =>
           LET top      == ret.value
               included == {top[i].brand : i \in DOMAIN top}
           IN  /\ Len(top) = IF ret.limit < Cardinality(BrandsMet) THEN ret.limit
                             ELSE Cardinality(BrandsMet)
               /\ \A i, j \in DOMAIN top :
                      i < j => /\ top[i].brand # top[j].brand
                               /\ top[i].count >= top[j].count
               /\ \A i \in DOMAIN top :
                      /\ top[i].brand \in BrandsMet
                      /\ top[i].count = BrandCount(top[i].brand)
               /\ \A brand \in BrandsMet \ included : \A i \in DOMAIN top :
                      BrandCount(brand) <= top[i].count
    /\ ret.op \in CountedDistributions =>
           \A i, j \in DOMAIN ret.value : i < j => ret.value[i][2] >= ret.value[j][2]

C25_Witness ==
    /\ ret.op = "get_top_brands"
    /\ ret.limit = 2
    /\ Cardinality(BrandsMet) = 3
    /\ Len(ret.value) = 2
    /\ ret.value[1].count = 2
    /\ ret.value[1].brand # calc.cars[1].brand
    /\ ret.value[2].brand = calc.cars[1].brand

\* C26: over a collection of exactly one car, get_price_statistics reports
\* variance 0 and std_dev 0, and the price of the car as mean, median and
\* mode.
C26_SingleCarStatistics ==
    (ret.op = "get_price_statistics" /\ Len(calc.cars) = 1) =>
        /\ IsZero(DictGet(ret.value, "variance", None))
        /\ IsZero(DictGet(ret.value, "std_dev", None))
        /\ \A key \in {"mean", "median", "mode"} :
               /\ key \in DictKeys(ret.value)
               /\ "m" \in DOMAIN DictGet(ret.value, key, None)
               /\ DCmp(DictGet(ret.value, key, None), calc.cars[1].price) = 0

C26_Witness ==
    /\ ret.op = "get_price_statistics"
    /\ Len(calc.cars) = 1
    /\ DictGet(ret.value, "count", 0) = 1
    /\ ~DIsInteger(calc.cars[1].price)
    /\ DCmp(DictGet(ret.value, "mode", DZero), calc.cars[1].price) = 0
    /\ IsZero(DictGet(ret.value, "std_dev", None))

\* C28: create_transaction on a car that is not AVAILABLE raises ValueError
\* and leaves the transactions and the status of the car as they were; on
\* an AVAILABLE car it appends one transaction, PENDING, and sets the car to
\* RESERVED.
C28_CreateTransaction ==
    [][ret'.op = "create_transaction" =>
           IF calc.cars[ret'.car].status # "AVAILABLE"
           THEN /\ ret'.raised = "ValueError"
                /\ calc'.transactions = calc.transactions
                /\ calc'.cars = calc.cars
           ELSE /\ ret'.raised = "none"
                /\ Len(calc'.transactions) = Len(calc.transactions) + 1
                /\ SubSeq(calc'.transactions, 1, Len(calc.transactions))
                       = calc.transactions
                /\ calc'.transactions[Len(calc'.transactions)].status = "PENDING"
                /\ calc'.transactions[Len(calc'.transactions)].car = ret'.car
                /\ calc'.cars = [calc.cars EXCEPT ![ret'.car].status = "RESERVED"]]_vars

C28_Witness ==
    /\ ret.op = "create_transaction"
    /\ ret.raised = "ValueError"
    /\ calc.cars[ret.car].status = "RESERVED"
    /\ Len(calc.transactions) = 1
    /\ calc.transactions[1].car = ret.car
    /\ calc.transactions[1].status = "PENDING"

\* The transactions of a car that are PENDING.
PendingOf(car) ==
    {i \in DOMAIN calc.transactions :
        /\ calc.transactions[i].car = car
        /\ calc.transactions[i].status = "PENDING"}

\* C29: from a dealership whose cars are all AVAILABLE and that has no
\* transaction, no sequence of create_transaction, complete_transaction and
\* cancel_transaction calls leaves a car with more than one transaction in
\* status PENDING.
C29_OnePendingPerCar ==
    (/\ calc.exists
     /\ calc.class = "Dealership"
     /\ \A car \in CarPlaces : args.statuses[car] = "AVAILABLE") =>
        \A car \in CarPlaces : Cardinality(PendingOf(car)) <= 1
====
